---- MODULE Spec2Model ----
(***************************************************************************)
(* Domain Availability Resolver of domain-muse (src/src/rdap.ts).          *)
(*                                                                         *)
(* Strings that the code inspects character by character (domain names,    *)
(* TLDs) are sequences of one-character strings.  Strings that the code    *)
(* only passes along (error messages, URL bodies) are TLA+ strings.        *)
(***************************************************************************)
EXTENDS Integers, Sequences, FiniteSets, TLC

VARIABLES
    rt,              \* the frame of one withRetry call (SpecRetry)
    bootstrapCache,  \* module-level `let bootstrapCache` (rdap.ts:71)
    calls,           \* the frames of the checkDomains calls, by caller
    env,             \* the responses the outside world can give
    fetchCount,      \* number of fetches of IANA_BOOTSTRAP issued so far
    populated,       \* history: what the first completed getBootstrapServers call returned
    probe            \* one isValidDomain call: its argument and its result (SpecValidate)

vars == <<rt, bootstrapCache, calls, env, fetchCount, populated, probe>>

(***************************************************************************)
(* Bounds of the model.                                                    *)
(***************************************************************************)
MaxRetriesArg == 3   \* largest `retries` argument tried for withRetry
MaxInput == 2        \* longest input sequence of checkDomains under Spec
ExtraQueued == 1     \* tasks beyond the RDAP ceiling in the pipeline batch
MaxLines == 2        \* most lines in a sample of whois output
MaxEntries == 2      \* most entries in a sample bootstrap document
MaxLabels == 2       \* most labels in a sample argument of isValidDomain
MaxRaw == 4          \* longest generated raw name that is enumerated in full

(***************************************************************************)
(* Absent values of optional fields and uninitialised locals.              *)
(***************************************************************************)
NoError == "<absent>"

\* an optional value: the empty set when null or undefined, else a singleton
None == {}
Some(x) == {x}
The(opt) == CHOOSE x \in opt : TRUE

\* no isValidDomain call under observation
NoProbe == [state |-> "none", domain |-> <<>>, value |-> FALSE]

(***************************************************************************)
(* Characters.                                                             *)
(***************************************************************************)
LowerLetters == <<"a","b","c","d","e","f","g","h","i","j","k","l","m",
                  "n","o","p","q","r","s","t","u","v","w","x","y","z">>
UpperLetters == <<"A","B","C","D","E","F","G","H","I","J","K","L","M",
                  "N","O","P","Q","R","S","T","U","V","W","X","Y","Z">>
Digits == {"0","1","2","3","4","5","6","7","8","9"}

Range(s) == {s[i] : i \in DOMAIN s}

\* Array.prototype.join: the strings of ls with sep between them
RECURSIVE Join(_, _)
Join(ls, sep) ==
    IF ls = <<>> THEN <<>>
    ELSE IF Len(ls) = 1 THEN ls[1]
    ELSE ls[1] \o <<sep>> \o Join(Tail(ls), sep)

\* the sequences of at most n elements of S
RECURSIVE SeqsUpTo(_, _)
SeqsUpTo(S, n) ==
    IF n = 0 THEN {<<>>}
    ELSE LET shorter == SeqsUpTo(S, n - 1) IN
         shorter \cup {Append(s, x) : s \in {t \in shorter : Len(t) = n - 1}, x \in S}

UpperSet == Range(UpperLetters)
AlnumSet == Range(LowerLetters) \cup UpperSet \cup Digits
LowerOf == [ch \in UpperSet |->
              LowerLetters[CHOOSE i \in DOMAIN UpperLetters : UpperLetters[i] = ch]]

IsAlnum(ch) == ch \in AlnumSet

\* String.prototype.toLowerCase on one character
LowerChar(ch) == IF ch \in UpperSet THEN LowerOf[ch] ELSE ch

toLowerCase(s) == [i \in DOMAIN s |-> LowerChar(s[i])]

\* String.prototype.split(sep) for a one-character separator: the parts
\* between the occurrences of sep, always at least one; "" splits into
\* <<"">>.
split(s, sep) ==
    LET seps == {i \in DOMAIN s : s[i] = sep}
        n == Cardinality(seps)
        cut(k) == IF k = 0 THEN 0
                  ELSE IF k = n + 1 THEN Len(s) + 1
                  ELSE CHOOSE i \in seps : Cardinality({j \in seps : j < i}) = k - 1
    IN [k \in 1..(n + 1) |-> SubSeq(s, cut(k - 1) + 1, cut(k) - 1)]

(***************************************************************************)
(* Domain validation (rdap.ts:8-10, 78-81).                                *)
(***************************************************************************)
MAX_DOMAIN_LENGTH == 253
LABEL_INNER_MAX == 61

\* one label of DOMAIN_REGEX: [a-z0-9]([a-z0-9-]{0,61}[a-z0-9])? with /i
LabelMatches_trailingHyphen(l) ==
    /\ Len(l) >= 1
    /\ IsAlnum(l[1])
    /\ Len(l) >= 2 =>
         /\ Len(l) - 1 <= LABEL_INNER_MAX + 1
         /\ \A i \in 2..Len(l) : IsAlnum(l[i]) \/ l[i] = "-"

LabelMatches(l) ==
    /\ Len(l) >= 1
    /\ IsAlnum(l[1])
    /\ Len(l) >= 2 =>
         /\ IsAlnum(l[Len(l)])
         /\ Len(l) - 2 <= LABEL_INNER_MAX
         /\ \A i \in 2..(Len(l) - 1) : IsAlnum(l[i]) \/ l[i] = "-"

\* ^label(\.label)*$ : the whole string is labels joined by single dots
DOMAIN_REGEX(s) == \A l \in Range(split(s, ".")) : LabelMatches(l)

isValidDomain(domain) ==
    IF domain = <<>> \/ Len(domain) > MAX_DOMAIN_LENGTH
    THEN FALSE
    ELSE DOMAIN_REGEX(domain)

(***************************************************************************)
(* Retry configuration (rdap.ts:16-18) and withRetry (rdap.ts:98-114).     *)
(*                                                                         *)
(* An outcome is what one invocation of fn does: it resolves with a value  *)
(* or rejects with an error.  The frame keeps the loop's locals (attempt,  *)
(* lastError), the position in the loop (status) and, as history, the      *)
(* outcomes of the invocations made and the delays slept.                  *)
(***************************************************************************)
MAX_RETRIES == 2
RETRY_DELAY_MS == 1000

Resolve(v) == [ok |-> TRUE, value |-> Some(v), error |-> NoError]
Reject(e) == [ok |-> FALSE, value |-> None, error |-> e]

RetryFrame(retries) ==
    [retries |-> retries, attempt |-> 0, status |-> "invoke",
     lastError |-> NoError, value |-> None,
     log |-> <<>>, sleeps |-> <<>>]

RetryDelay_constant(attempt) == RETRY_DELAY_MS

\* delay slept after the failure of attempt `attempt` (0-based)
RetryDelay(attempt) == RETRY_DELAY_MS * (attempt + 1)

RetryAdvance_oneMore(f) ==
    IF f.attempt + 1 <= f.retries + 1
    THEN [f EXCEPT !.attempt = @ + 1, !.status = "invoke"]
    ELSE [f EXCEPT !.attempt = @ + 1, !.status = "thrown"]

\* the for-loop's increment and test, and the `throw lastError` behind it
RetryAdvance(f) ==
    IF f.attempt + 1 <= f.retries
    THEN [f EXCEPT !.attempt = @ + 1, !.status = "invoke"]
    ELSE [f EXCEPT !.attempt = @ + 1, !.status = "thrown"]

RetrySleepsAfter_everyFailure(f) == f.attempt <= f.retries

\* `if (attempt < retries)` guarding the sleep in the catch block
RetrySleepsAfter(f) == f.attempt < f.retries

\* one iteration of the loop body up to its await: `return await fn()` or
\* the catch block
RetryInvoke(f, outcome) ==
    LET g == [f EXCEPT !.log = Append(@, outcome)] IN
    IF outcome.ok
    THEN [g EXCEPT !.status = "returned", !.value = outcome.value]
    ELSE LET h == [g EXCEPT !.lastError = outcome.error] IN
         IF RetrySleepsAfter(f)
         THEN [h EXCEPT !.status = "sleep",
                        !.sleeps = Append(@, RetryDelay(f.attempt))]
         ELSE RetryAdvance(h)

\* the sleep's timer fires
RetryWake(f) == RetryAdvance(f)

\* every way withRetry can run on from frame f to its end when each
\* invocation of fn meets one of the given answers; an element of `tries`
\* pairs an answer of the world with the outcome fn makes of it, and
\* `last` is the answer the latest invocation met
Try(answer, outcome) == [answer |-> answer, outcome |-> outcome]

RECURSIVE withRetry(_, _, _)
withRetry(f, last, tries) ==
    IF f.status = "invoke"
    THEN UNION {withRetry(RetryInvoke(f, t.outcome), t.answer, tries) : t \in tries}
    ELSE IF f.status = "sleep" THEN withRetry(RetryWake(f), last, tries)
    ELSE {[frame |-> f, last |-> last]}

(***************************************************************************)
(* Server tables (rdap.ts:20-41).  A URL is its text without trailing      *)
(* slashes plus the number of trailing slashes, which is all that          *)
(* url.replace(/\/$/, "") can tell apart.                                   *)
(***************************************************************************)
Url(body, slashes) == [body |-> body, slashes |-> slashes]

RDAP_SERVERS ==
    (<<"c","o","m">> :> Url("https://rdap.verisign.com/com/v1", 0))
    @@ (<<"n","e","t">> :> Url("https://rdap.verisign.com/net/v1", 0))
    @@ (<<"o","r","g">> :> Url("https://rdap.publicinterestregistry.org/rdap", 0))
    @@ (<<"i","n","f","o">> :> Url("https://rdap.identitydigital.services/rdap", 0))
    @@ (<<"a","i">> :> Url("https://rdap.identitydigital.services/rdap", 0))
    @@ (<<"b","i","o">> :> Url("https://rdap.identitydigital.services/rdap", 0))
    @@ (<<"l","i","v","e">> :> Url("https://rdap.identitydigital.services/rdap", 0))
    @@ (<<"s","o","f","t","w","a","r","e">> :> Url("https://rdap.identitydigital.services/rdap", 0))
    @@ (<<"s","t","u","d","i","o">> :> Url("https://rdap.identitydigital.services/rdap", 0))

WHOIS_SERVERS ==
    (<<"i","o">> :> <<"w","h","o","i","s",".","n","i","c",".","i","o">>)
    @@ (<<"c","o">> :> <<"w","h","o","i","s",".","n","i","c",".","c","o">>)
    @@ (<<"m","e">> :> <<"w","h","o","i","s",".","n","i","c",".","m","e">>)
    @@ (<<"t","v">> :> <<"w","h","o","i","s",".","n","i","c",".","t","v">>)
    @@ (<<"c","c">> :> <<"w","h","o","i","s",".","n","i","c",".","c","c">>)
    @@ (<<"a","p","p">> :> <<"w","h","o","i","s",".","n","i","c",".","g","o","o","g","l","e">>)

\* Both tables are object literals, read with table[tld]: a name that the
\* table lacks is looked up in Object.prototype.  These are the inherited
\* names a lowercased label can spell, with the text String() makes of the
\* value found (a function, an object).
ObjectPrototype ==
    (<<"c","o","n","s","t","r","u","c","t","o","r">>
        :> <<"f","u","n","c","t","i","o","n"," ","O","b","j","e","c","t","(",")">>)
    @@ (<<"_","_","p","r","o","t","o","_","_">>
        :> <<"[","o","b","j","e","c","t"," ","O","b","j","e","c","t","]">>)

\* servers[tld] of lines 263 and 299: the entry, an inherited value, or
\* undefined (the empty URL stands for every falsy value)
ServerOf(servers, tld) ==
    IF tld \in DOMAIN servers THEN servers[tld]
    ELSE IF tld \in DOMAIN ObjectPrototype THEN Url("<inherited>", 0)
    ELSE Url("", 0)

(***************************************************************************)
(* WHOIS_AVAILABLE_PATTERNS (rdap.ts:43-67).  Three shapes occur:          *)
(*   "line"  /^a/im    a at the start of the text or of a line             *)
(*   "sub"   /a/i      a anywhere                                          *)
(*   "gap"   /a\s*b/i  a, any run of whitespace, b                         *)
(***************************************************************************)
Pattern(kind, a, b) == [kind |-> kind, a |-> a, b |-> b]

WHOIS_AVAILABLE_PATTERNS == <<
    Pattern("line", <<"n","o"," ","m","a","t","c","h">>, <<>>),
    Pattern("line", <<"n","o","t"," ","f","o","u","n","d">>, <<>>),
    Pattern("line", <<"n","o"," ","d","a","t","a"," ","f","o","u","n","d">>, <<>>),
    Pattern("line", <<"n","o"," ","e","n","t","r","i","e","s"," ","f","o","u","n","d">>, <<>>),
    Pattern("line", <<"n","o","t","h","i","n","g"," ","f","o","u","n","d">>, <<>>),
    Pattern("sub", <<"d","o","m","a","i","n"," ","n","o","t"," ","f","o","u","n","d">>, <<>>),
    Pattern("sub", <<"n","o"," ","m","a","t","c","h"," ","f","o","r">>, <<>>),
    Pattern("sub", <<"n","o","t"," ","r","e","g","i","s","t","e","r","e","d">>, <<>>),
    Pattern("sub", <<"n","o"," ","s","u","c","h"," ","d","o","m","a","i","n">>, <<>>),
    Pattern("sub", <<"o","b","j","e","c","t"," ","n","o","t"," ","f","o","u","n","d">>, <<>>),
    Pattern("sub", <<"q","u","e","r","y"," ","d","i","d","n","'","t"," ","r","e","t","u","r","n"," ","a","n","y"," ","r","e","s","u","l","t">>, <<>>),
    Pattern("gap", <<"s","t","a","t","u","s",":">>, <<"a","v","a","i","l","a","b","l","e">>),
    Pattern("gap", <<"s","t","a","t","u","s",":">>, <<"f","r","e","e">>),
    Pattern("gap", <<"d","o","m","a","i","n"," ","s","t","a","t","u","s",":">>, <<"n","o"," ","o","b","j","e","c","t"," ","f","o","u","n","d">>),
    Pattern("sub", <<"t","h","e"," ","q","u","e","r","i","e","d"," ","o","b","j","e","c","t"," ","d","o","e","s"," ","n","o","t"," ","e","x","i","s","t">>, <<>>),
    Pattern("sub", <<"n","o"," ","i","n","f","o","r","m","a","t","i","o","n"," ","a","v","a","i","l","a","b","l","e">>, <<>>),
    Pattern("sub", <<"d","o","m","a","i","n"," ","y","o","u"," ","r","e","q","u","e","s","t","e","d"," ","i","s"," ","n","o","t"," ","k","n","o","w","n">>, <<>>),
    Pattern("sub", <<"t","h","i","s"," ","d","o","m","a","i","n"," ","i","s"," ","a","v","a","i","l","a","b","l","e">>, <<>>),
    Pattern("sub", <<"i","s"," ","a","v","a","i","l","a","b","l","e"," ","f","o","r"," ","r","e","g","i","s","t","r","a","t","i","o","n">>, <<>>)
>>


LineTerminators == {"\n", "\r"}
WhiteSpace == {" ", "\t", "\n", "\r", "\f"}

MatchesAt_caseSensitive(text, lit, i) ==
    /\ i >= 1
    /\ i + Len(lit) - 1 <= Len(text)
    /\ \A k \in DOMAIN lit : text[i + k - 1] = lit[k]

\* the literal lit occurs in text at position i, compared as the i flag does
MatchesAt(text, lit, i) ==
    /\ i >= 1
    /\ i + Len(lit) - 1 <= Len(text)
    /\ \A k \in DOMAIN lit : LowerChar(text[i + k - 1]) = LowerChar(lit[k])

\* positions where ^ matches under the m flag
LineStarts(text) == {1} \cup {i + 1 : i \in {j \in DOMAIN text : text[j] \in LineTerminators}}

\* RegExp.prototype.test for one pattern of the table
PatternTest(p, text) ==
    IF p.kind = "line" THEN \E i \in LineStarts(text) : MatchesAt(text, p.a, i)
    ELSE IF p.kind = "sub" THEN \E i \in DOMAIN text : MatchesAt(text, p.a, i)
    ELSE \E i \in DOMAIN text : \E j \in DOMAIN text :
            /\ MatchesAt(text, p.a, i)
            /\ j >= i + Len(p.a)
            /\ \A k \in (i + Len(p.a))..(j - 1) : text[k] \in WhiteSpace
            /\ MatchesAt(text, p.b, j)

\* WHOIS_AVAILABLE_PATTERNS.some((pattern) => pattern.test(stdout))
SomePatternMatches(stdout) ==
    \E n \in DOMAIN WHOIS_AVAILABLE_PATTERNS :
        PatternTest(WHOIS_AVAILABLE_PATTERNS[n], stdout)

\* the texts the whois program prints in this model
T_nomatch == <<"N","o"," ","m","a","t","c","h"," ","f","o","r"," ","d","o","m","a","i","n",".">>   \* "No match for domain."
T_record == <<"D","o","m","a","i","n"," ","N","a","m","e",":"," ","A",".","C","O","M","\n","R","e","g","i","s","t","r","a","r",":"," ","X">>   \* "Domain Name: A.COM\nRegistrar: X"

\* single lines of whois output, and the texts made of up to MaxLines of
\* them (of none: empty output)
WhoisLines == <<
    T_nomatch,   \* 1: "No match for domain."
    <<"D","o","m","a","i","n"," ","N","a","m","e",":"," ","A",".","C","O","M">>,   \* 2: "Domain Name: A.COM"
    <<"N","O","T"," ","F","O","U","N","D">>,   \* 3: "NOT FOUND"
    <<"x"," ","n","o","t"," ","f","o","u","n","d">>,   \* 4: "x not found"
    <<"S","t","a","t","u","s",":","\t"," ","f","r","e","e">>,   \* 5: "Status:\t free"
    <<"S","t","a","t","u","s",":"," ","a","c","t","i","v","e">>   \* 6: "Status: active"
>>


WhoisSamples == {Join(ls, "\n") : ls \in SeqsUpTo(Range(WhoisLines), MaxLines)}

WhoisTexts == {T_nomatch, T_record} \cup WhoisSamples

(***************************************************************************)
(* DomainCheckResult (types.ts:1-8) with RdapCheckResult's flag             *)
(* (rdap.ts:229-232).  An absent error is NoError; an absent               *)
(* needsWhoisFallback is FALSE.                                            *)
(***************************************************************************)
Result_premiumWhenAvailable(domain, available, error, fallback) ==
    [domain |-> domain, available |-> available, isPremium |-> available,
     error |-> error, needsWhoisFallback |-> fallback]

\* the object literals of lines 162-167, 184, 187, 210, 214, 222, 242-247,
\* 254-259, 267-272 and 340-345
Result(domain, available, error, fallback) ==
    [domain |-> domain, available |-> available, isPremium |-> FALSE,
     error |-> error, needsWhoisFallback |-> fallback]

\* domain.split(".") and the last part, lowercased
LastLabel(domain) ==
    LET parts == split(domain, ".") IN toLowerCase(parts[Len(parts)])

(***************************************************************************)
(* getBootstrapServers (rdap.ts:121-150).                                  *)
(*                                                                         *)
(* The world's answer to the fetch of IANA_BOOTSTRAP is one of:            *)
(*   "throw"   fetch rejects (network error, 5 s timeout)                  *)
(*   "status"  a response with response.ok false                           *)
(*   "badjson" response.json() rejects                                     *)
(*   "nolist"  a parsed body whose services field cannot be iterated       *)
(*   "json"    a parsed body whose services field is a sequence of         *)
(*             entries; an entry is a pair [tlds, urls] or, with bad set,  *)
(*             something whose destructuring or iteration throws           *)
(***************************************************************************)
Entry(tlds, urls) == [bad |-> FALSE, tlds |-> tlds, urls |-> urls]
BadEntry == [bad |-> TRUE, tlds |-> <<>>, urls |-> <<>>]
BootResponse(kind, services) == [kind |-> kind, services |-> services]

StripTrailingSlash_all(url) == [url EXCEPT !.slashes = 0]

\* url.replace(/\/$/, "")
StripTrailingSlash(url) ==
    IF url.slashes > 0 THEN [url EXCEPT !.slashes = @ - 1] ELSE url

\* `if (url)`: urls[0] exists and is not the empty string
Truthy(urls) == Len(urls) > 0 /\ urls[1] # Url("", 0)

\* the inner loop: servers[tld.toLowerCase()] = url.replace(...)
RECURSIVE MergeTlds(_, _, _)
MergeTlds(servers, tlds, url) ==
    IF tlds = <<>> THEN servers
    ELSE MergeTlds((toLowerCase(Head(tlds)) :> StripTrailingSlash(url)) @@ servers,
                   Tail(tlds), url)

RECURSIVE MergeServices_keepPartial(_, _)
MergeServices_keepPartial(servers, services) ==
    IF services = <<>> \/ Head(services).bad THEN [threw |-> FALSE, servers |-> servers]
    ELSE LET e == Head(services) IN
         MergeServices_keepPartial(
             IF Truthy(e.urls) THEN MergeTlds(servers, e.tlds, e.urls[1]) ELSE servers,
             Tail(services))

\* the outer loop over data.services; threw tells that it raised part-way
RECURSIVE MergeServices(_, _)
MergeServices(servers, services) ==
    IF services = <<>> THEN [threw |-> FALSE, servers |-> servers]
    ELSE IF Head(services).bad THEN [threw |-> TRUE, servers |-> servers]
    ELSE LET e == Head(services) IN
         MergeServices(IF Truthy(e.urls) THEN MergeTlds(servers, e.tlds, e.urls[1])
                       ELSE servers,
                       Tail(services))

BootstrapFetched_ignoreStatus(cache, resp) ==
    IF resp.kind \in {"throw", "badjson", "nolist"}
    THEN [servers |-> RDAP_SERVERS, cache |-> cache]
    ELSE LET m == MergeServices(RDAP_SERVERS, resp.services) IN
         IF m.threw THEN [servers |-> RDAP_SERVERS, cache |-> cache]
         ELSE [servers |-> m.servers, cache |-> Some(m.servers)]

\* what the call returns and what it leaves in bootstrapCache once the
\* fetch has been answered with resp (the cache was null when it started)
BootstrapFetched(cache, resp) ==
    IF resp.kind \in {"throw", "status", "badjson", "nolist"}
    THEN [servers |-> RDAP_SERVERS, cache |-> cache]
    ELSE LET m == MergeServices(RDAP_SERVERS, resp.services) IN
         IF m.threw THEN [servers |-> RDAP_SERVERS, cache |-> cache]
         ELSE [servers |-> m.servers, cache |-> Some(m.servers)]


(***************************************************************************)
(* checkViaWhois (rdap.ts:157-189).                                        *)
(*                                                                         *)
(* One run of the whois program either exits 0 with some stdout or fails   *)
(* (spawn error, 15 s timeout, non-zero exit), which rejects with an       *)
(* Error carrying a message.                                               *)
(***************************************************************************)
WhoisExit(stdout) == [kind |-> "exit0", stdout |-> stdout, message |-> NoError]
WhoisFail(message) == [kind |-> "fail", stdout |-> <<>>, message |-> message]

WhoisArgs_alwaysServer(domain) == << <<"-","h">>, <<>>, domain >>

\* the argument vector handed to execFile
WhoisArgs(domain) ==
    LET tld == LastLabel(domain) IN
    IF tld \in DOMAIN WHOIS_SERVERS
    THEN << <<"-","h">>, WHOIS_SERVERS[tld], domain >>
    ELSE IF tld \in DOMAIN ObjectPrototype
    THEN << <<"-","h">>, ObjectPrototype[tld], domain >>
    ELSE << domain >>

WhoisRuns_knownServerOnly(domain) == LastLabel(domain) \in DOMAIN WHOIS_SERVERS

\* `if (!tld)`: no process is run for a domain that ends in a dot or is empty
WhoisRuns(domain) == LastLabel(domain) # <<>>

\* `isAvailable` of line 180, tabulated over the texts whois can print
isAvailable == [stdout \in WhoisTexts |-> SomePatternMatches(stdout)]

WhoisOutcome_swallow(run) == Resolve(run.stdout)

WhoisOutcome(run) ==
    IF run.kind = "exit0" THEN Resolve(run.stdout) ELSE Reject(run.message)

WhoisCatch_rethrow(domain, f) == Reject(f.lastError)

\* the catch block of lines 185-188: a rejection of withRetry becomes an
\* error result
WhoisCatch(domain, f) ==
    Resolve(Result(domain, FALSE, f.lastError, FALSE))

WhoisSettle(domain, f) ==
    IF f.status = "returned"
    THEN Resolve(Result(domain, isAvailable[The(f.value)], NoError, FALSE))
    ELSE WhoisCatch(domain, f)

\* the ways a call can end when each run of whois ends as one of `runs`
checkViaWhois(domain, runs) ==
    IF ~WhoisRuns(domain)
    THEN {[settled |-> Resolve(Result(domain, FALSE, "Invalid domain", FALSE)),
           requests |-> 0, last |-> WhoisFail("<none>")]}
    ELSE {[settled |-> WhoisSettle(domain, e.frame),
           requests |-> Len(e.frame.log), last |-> e.last] :
             e \in withRetry(RetryFrame(MAX_RETRIES), WhoisFail("<none>"),
                             {Try(run, WhoisOutcome(run)) : run \in runs})}

(***************************************************************************)
(* checkViaRdap (rdap.ts:197-224).  The registry's answer to one request   *)
(* is an HTTP status, or the fetch rejects (network error, 10 s timeout).  *)
(***************************************************************************)
HttpStatus(status) == [kind |-> "status", status |-> status, message |-> NoError]
FetchFail(message) == [kind |-> "throw", status |-> 0, message |-> message]

RdapStatusError(status) ==
    IF status = 500 THEN "RDAP returned 500"
    ELSE IF status = 429 THEN "RDAP returned 429"
    ELSE "RDAP returned <status>"

RdapOutcome_swapped(domain, resp) ==
    IF resp.kind = "throw" THEN Reject(resp.message)
    ELSE IF resp.status = 404 THEN Resolve(Result(domain, FALSE, NoError, FALSE))
    ELSE IF resp.status = 200 THEN Resolve(Result(domain, TRUE, NoError, FALSE))
    ELSE Reject(RdapStatusError(resp.status))

\* the arrow function passed to withRetry
RdapOutcome(domain, resp) ==
    IF resp.kind = "throw" THEN Reject(resp.message)
    ELSE IF resp.status = 404 THEN Resolve(Result(domain, TRUE, NoError, FALSE))
    ELSE IF resp.status = 200 THEN Resolve(Result(domain, FALSE, NoError, FALSE))
    ELSE Reject(RdapStatusError(resp.status))

RdapCatch_available(domain, f) ==
    Resolve(Result(domain, TRUE, f.lastError, FALSE))

\* the catch block of lines 220-223
RdapCatch(domain, f) ==
    Resolve(Result(domain, FALSE, f.lastError, FALSE))

\* the ways a call can end when each request is answered by one of
\* `answers`
checkViaRdap(domain, rdapServer, answers) ==
    {[settled |-> IF e.frame.status = "returned" THEN Resolve(The(e.frame.value))
                  ELSE RdapCatch(domain, e.frame),
      requests |-> Len(e.frame.log), last |-> e.last] :
        e \in withRetry(RetryFrame(MAX_RETRIES), FetchFail("<none>"),
                        {Try(resp, RdapOutcome(domain, resp)) : resp \in answers})}


(***************************************************************************)
(* One lookup task of a pipeline: the promise that rdapLimit / whoisLimit  *)
(* returns for one entry of the batch.                                     *)
(*   state "queued"   waiting in the limiter's queue                       *)
(*         "boot"     in checkViaRdapOnly, awaiting the bootstrap fetch    *)
(*         "lookup"   in withRetry (requests, sleeps) of its client        *)
(*         "done"     fulfilled with result                                *)
(*         "rejected" rejected                                             *)
(***************************************************************************)
NoUrl == Url("", 0)
NoResult == Result(<<>>, FALSE, "<pending>", FALSE)
NoResponse == FetchFail("<none>")
NoRun == WhoisFail("<none>")

RdapTask(domain) ==
    [domain |-> domain, state |-> "queued", server |-> NoUrl,
     requests |-> 0, last |-> NoResponse, result |-> NoResult]

WhoisTask(domain) ==
    [domain |-> domain, state |-> "queued", args |-> <<>>,
     requests |-> 0, last |-> NoRun, result |-> NoResult]

InFlight == {"boot", "lookup"}

\* `if (result.error)`: the error field is present and not the empty string
HasError(result) == result.error # NoError /\ result.error # ""

(***************************************************************************)
(* checkViaRdapOnly (rdap.ts:239-281), in the three stretches between its  *)
(* awaits.                                                                 *)
(***************************************************************************)
\* lines 262-273, once getBootstrapServers has returned servers;
\* `!rdapServer` holds for a missing key and for the empty string
RdapOnlyRoute(task, servers) ==
    LET rdapServer == ServerOf(servers, LastLabel(task.domain)) IN
    IF rdapServer = Url("", 0)
    THEN [task EXCEPT !.state = "done",
                      !.result = Result(task.domain, FALSE, NoError, TRUE)]
    ELSE [task EXCEPT !.state = "lookup", !.server = rdapServer, !.requests = 1]

RdapOnlyEnter_unvalidated(task, cache) ==
    IF LastLabel(task.domain) = <<>>
    THEN [task EXCEPT !.state = "done",
                      !.result = Result(task.domain, FALSE, "Invalid domain", FALSE)]
    ELSE IF cache # None THEN RdapOnlyRoute(task, The(cache))
    ELSE [task EXCEPT !.state = "boot"]

\* lines 240-262: validation, then getBootstrapServers' cache test (line 122)
RdapOnlyEnter(task, cache) ==
    IF ~isValidDomain(task.domain)
    THEN [task EXCEPT !.state = "done",
                      !.result = Result(task.domain, FALSE, "Invalid domain format", FALSE)]
    ELSE IF LastLabel(task.domain) = <<>>
    THEN [task EXCEPT !.state = "done",
                      !.result = Result(task.domain, FALSE, "Invalid domain", FALSE)]
    ELSE IF cache # None THEN RdapOnlyRoute(task, The(cache))
    ELSE [task EXCEPT !.state = "boot"]

MarkFallback_never(result) == result

\* lines 276-280: an error of checkViaRdap asks for the whois fallback
MarkFallback(result) ==
    IF HasError(result) THEN [result EXCEPT !.needsWhoisFallback = TRUE] ELSE result

\* lines 275-280, once every request of the lookup has been answered: the
\* ways the task can settle
RdapOnlyLeave(task, answers) ==
    {IF r.settled.ok
     THEN [task EXCEPT !.state = "done", !.requests = r.requests, !.last = r.last,
                       !.result = MarkFallback(The(r.settled.value))]
     ELSE [task EXCEPT !.state = "rejected", !.requests = r.requests, !.last = r.last] :
       r \in checkViaRdap(task.domain, task.server, answers)}

(***************************************************************************)
(* checkViaWhois as a task: up to the first run, and once the runs are     *)
(* over.                                                                   *)
(***************************************************************************)
WhoisEnter(task) ==
    IF ~WhoisRuns(task.domain)
    THEN [task EXCEPT !.state = "done",
                      !.result = The(The(checkViaWhois(task.domain, {})).settled.value)]
    ELSE [task EXCEPT !.state = "lookup", !.args = WhoisArgs(task.domain),
                      !.requests = 1]

WhoisLeave(task, runs) ==
    {IF r.settled.ok
     THEN [task EXCEPT !.state = "done", !.requests = r.requests,
                       !.last = r.last, !.result = The(r.settled.value)]
     ELSE [task EXCEPT !.state = "rejected", !.requests = r.requests,
                       !.last = r.last] :
       r \in checkViaWhois(task.domain, runs)}

(***************************************************************************)
(* The two limiters (rdap.ts:12-14, 306-307) and p-limit's scheduling:     *)
(* queued functions start in queue order whenever fewer than the limit     *)
(* are active; a function that settles releases its slot to the next.      *)
(***************************************************************************)
RDAP_CONCURRENCY == 10
WHOIS_CONCURRENCY == 3

whoisLimit_shared == RDAP_CONCURRENCY

\* pLimit(RDAP_CONCURRENCY), pLimit(WHOIS_CONCURRENCY): one pair per call
rdapLimit == RDAP_CONCURRENCY
whoisLimit == WHOIS_CONCURRENCY

Limit(kind) == IF kind = "rdap" THEN rdapLimit ELSE whoisLimit

Active(tasks) == Cardinality({i \in DOMAIN tasks : tasks[i].state \in InFlight})
Queued(tasks) == {i \in DOMAIN tasks : tasks[i].state = "queued"}
Min(S) == CHOOSE x \in S : \A y \in S : x <= y

Enter(kind, task, cache) ==
    IF kind = "rdap" THEN RdapOnlyEnter(task, cache) ELSE WhoisEnter(task)

Pump_firstBatchOnly(kind, tasks, cache) ==
    The({IF \A i \in DOMAIN t : t[i].state = "queued"
         THEN [i \in DOMAIN t |-> IF i <= Limit(kind) THEN Enter(kind, t[i], cache) ELSE t[i]]
         ELSE t : t \in {tasks}})

\* p-limit's queue: start queued functions, in order, while a slot is free
\* (a one-element set binds an intermediate value, here and below, so that
\* it is computed once)
RECURSIVE Pump(_, _, _)
Pump(kind, tasks, cache) ==
    IF Queued(tasks) = {} \/ Active(tasks) >= Limit(kind) THEN tasks
    ELSE LET i == Min(Queued(tasks)) IN
         The({Pump(kind, started, cache) :
                 started \in {[tasks EXCEPT ![i] = Enter(kind, @, cache)]}})

(***************************************************************************)
(* checkDomains (rdap.ts:289-347).  The frame of one call:                 *)
(*   pc "idle"     not called yet                                          *)
(*      "boot"     line 295, awaiting the bootstrap fetch                  *)
(*      "rdap"     line 310, awaiting the first pass                       *)
(*      "whois"    line 329, awaiting the second pass                      *)
(*      "done"     returned output                                          *)
(*      "rejected" the promise rejected                                    *)
(***************************************************************************)
IdleFrame ==
    [pc |-> "idle", domains |-> <<>>, rdapDomains |-> <<>>,
     whoisOnlyDomains |-> <<>>, rdapTasks |-> <<>>, whoisTasks |-> <<>>,
     output |-> <<>>]

HasRdapServer_anyLabel(domain, servers) ==
    LastLabel(domain) # <<>>

\* `tld && servers[tld]` of the partition loop (lines 297-304)
HasRdapServer(domain, servers) ==
    LET tld == LastLabel(domain) IN
    tld # <<>> /\ ServerOf(servers, tld) # Url("", 0)

BeginRdap_bothPasses(frame, servers, cache) ==
    LET hasServer(d) == HasRdapServer(d, servers)
        noServer(d) == ~HasRdapServer(d, servers)
        rdapDomains == SelectSeq(frame.domains, hasServer)
        whoisOnlyDomains == SelectSeq(frame.domains, noServer)
    IN [frame EXCEPT !.pc = "rdap",
                     !.rdapDomains = rdapDomains,
                     !.whoisOnlyDomains = whoisOnlyDomains,
                     !.rdapTasks = Pump("rdap",
                         [i \in DOMAIN rdapDomains |-> RdapTask(rdapDomains[i])], cache),
                     !.whoisTasks = Pump("whois",
                         [i \in DOMAIN whoisOnlyDomains |-> WhoisTask(whoisOnlyDomains[i])],
                         None)]

\* lines 297-312: partition, then hand every rdapDomain to rdapLimit
BeginRdap(frame, servers, cache) ==
    LET hasServer(d) == HasRdapServer(d, servers)
        noServer(d) == ~HasRdapServer(d, servers)
        rdapDomains == SelectSeq(frame.domains, hasServer)
    IN [frame EXCEPT !.pc = "rdap",
                     !.rdapDomains = rdapDomains,
                     !.whoisOnlyDomains = SelectSeq(frame.domains, noServer),
                     !.rdapTasks = Pump("rdap",
                         [i \in DOMAIN rdapDomains |-> RdapTask(rdapDomains[i])], cache)]

NeedsWhoisFallback_everyError(rdapResults) ==
    LET failed(r) == r.needsWhoisFallback \/ HasError(r)
        needing == SelectSeq(rdapResults, failed)
    IN [i \in DOMAIN needing |-> needing[i].domain]

\* lines 315-324
NeedsWhoisFallback(rdapResults) ==
    LET flagged(r) == r.needsWhoisFallback
        needing == SelectSeq(rdapResults, flagged)
    IN [i \in DOMAIN needing |-> needing[i].domain]

SuccessfulRdapResults(rdapResults) ==
    LET unflagged(r) == ~r.needsWhoisFallback
    IN SelectSeq(rdapResults, unflagged)

Results(tasks) == [i \in DOMAIN tasks |-> tasks[i].result]

AllWhoisDomains_fallbackOnly(frame) ==
    NeedsWhoisFallback(Results(frame.rdapTasks))

\* lines 326-331
AllWhoisDomains(frame) ==
    frame.whoisOnlyDomains \o NeedsWhoisFallback(Results(frame.rdapTasks))

BeginWhois(frame) ==
    LET allWhoisDomains == AllWhoisDomains(frame) IN
    [frame EXCEPT !.pc = "whois",
                  !.whoisTasks = Pump("whois",
                      [i \in DOMAIN allWhoisDomains |-> WhoisTask(allWhoisDomains[i])],
                      None)]

AllResults_rdapLast(frame) ==
    Results(frame.whoisTasks) \o SuccessfulRdapResults(Results(frame.rdapTasks))

\* line 334
AllResults(frame) ==
    SuccessfulRdapResults(Results(frame.rdapTasks)) \o Results(frame.whoisTasks)

ResultMapGet_firstWins(allResults, d) ==
    LET hits == {i \in DOMAIN allResults : allResults[i].domain = d} IN
    IF hits = {} THEN Result(d, FALSE, "Result missing", FALSE)
    ELSE allResults[CHOOSE i \in hits : \A j \in hits : i <= j]

\* new Map(allResults.map((r) => [r.domain, r])).get(d): the last entry
\* recorded for the key; the placeholder when there is none
ResultMapGet(allResults, d) ==
    LET hits == {i \in DOMAIN allResults : allResults[i].domain = d} IN
    IF hits = {} THEN Result(d, FALSE, "Result missing", FALSE)
    ELSE allResults[CHOOSE i \in hits : \A j \in hits : j <= i]

Reconcile_unordered(domains, allResults) == allResults

\* lines 336-346
Reconcile(domains, allResults) ==
    [i \in DOMAIN domains |-> ResultMapGet(allResults, domains[i])]

AllDone(tasks) == \A i \in DOMAIN tasks : tasks[i].state = "done"
AnyRejected(tasks) == \E i \in DOMAIN tasks : tasks[i].state = "rejected"

\* Promise.all of the second pass settles (line 329), then lines 333-346
SettleWhois(frame) ==
    IF AnyRejected(frame.whoisTasks) THEN [frame EXCEPT !.pc = "rejected"]
    ELSE IF AllDone(frame.whoisTasks)
    THEN [frame EXCEPT !.pc = "done",
                       !.output = Reconcile(frame.domains, AllResults(frame))]
    ELSE frame

SettleRdap_eager(frame) ==
    IF AnyRejected(frame.rdapTasks) THEN [frame EXCEPT !.pc = "rejected"]
    ELSE SettleWhois(BeginWhois(frame))

\* Promise.all of the first pass settles (line 310), then lines 315-331
SettleRdap(frame) ==
    IF AnyRejected(frame.rdapTasks) THEN [frame EXCEPT !.pc = "rejected"]
    ELSE IF AllDone(frame.rdapTasks)
    THEN The({SettleWhois(second) : second \in {BeginWhois(frame)}})
    ELSE frame

\* run the call on until its next await that is not yet settled
Settle(frame) ==
    The({IF f.pc = "rdap" THEN SettleRdap(f)
         ELSE IF f.pc = "whois" THEN SettleWhois(f)
         ELSE f : f \in {frame}})


(***************************************************************************)
(* The outside world: the inputs callers pass and the answers the network  *)
(* and the whois program can give.                                         *)
(***************************************************************************)
D_acom == <<"a",".","c","o","m">>          \* "a.com": valid, RDAP endpoint in the table
D_bIO == <<"b",".","I","O">>           \* "b.IO": valid, whois server in the table
D_cdev == <<"c",".","d","e","v">>      \* "c.dev": valid, in neither table
D_inject == <<"a",".","c","o","m",";"," ","r","m">>   \* "a.com; rm": shell metacharacters
D_space == <<"a"," ","b",".","c","o","m">>    \* "a b.com": invalid, last label com
D_empty == <<>>                          \* ""
D_ctor == <<"a",".","c","o","n","s","t","r","u","c","t","o","r">>   \* "a.constructor": valid, in neither table

Domains == {D_acom, D_bIO, D_cdev, D_inject, D_space, D_empty}

\* a bootstrap document: io (in upper case, URL with a trailing slash), and
\* an entry without URLs
Doc_io ==
    << Entry(<< <<"I","O">> >>, << Url("https://rdap.nic.io", 1) >>),
       Entry(<< <<"d","e","v">> >>, << >>) >>

\* the same document, cut off by an entry that is no pair
Doc_torn == << Doc_io[1], BadEntry >>

BootResponses ==
    {BootResponse("throw", <<>>), BootResponse("status", <<>>),
     BootResponse("badjson", <<>>), BootResponse("nolist", <<>>),
     BootResponse("json", Doc_io), BootResponse("json", Doc_torn)}

\* entries of sample bootstrap documents
BootEntries == <<
    Doc_io[1],      \* 1: [["IO"], ["https://rdap.nic.io/"]]
    Doc_io[2],      \* 2: [["dev"], []]
    Entry(<< <<"c","o","m">>, <<"i","o">> >>,     \* 3: [["com","io"],
          << Url("https://rdap.example", 2),      \*     ["https://rdap.example//",
             Url("https://second.example", 0) >>),  \*    "https://second.example"]]
    Entry(<< <<"i","o">> >>, << Url("", 0) >>),   \* 4: [["io"], [""]]
    Entry(<< <<"d","e","v">> >>, << Url("", 1) >>),   \* 5: [["dev"], ["/"]]
    BadEntry        \* 6: not a pair
>>

\* the answers to the bootstrap fetch: the failures, an error status whose
\* body is a well-formed document, and every document of up to MaxEntries
\* sample entries
BootSamples ==
    {BootResponse("throw", <<>>), BootResponse("status", <<>>),
     BootResponse("status", Doc_io),
     BootResponse("badjson", <<>>), BootResponse("nolist", <<>>)}
      \cup {BootResponse("json", doc) : doc \in SeqsUpTo(Range(BootEntries), MaxEntries)}

RdapResponses ==
    {HttpStatus(404), HttpStatus(200), HttpStatus(500), FetchFail("fetch failed")}

WhoisRunsOf ==
    {WhoisExit(T_nomatch), WhoisExit(T_record), WhoisFail("Command failed: whois")}

\* the runs of the whois program over every sample text, and two ways to fail
WhoisSampleRuns ==
    {WhoisExit(t) : t \in WhoisSamples}
      \cup {WhoisFail("Command failed: whois"), WhoisFail("spawn whois ENOENT")}


\* the batch with more entries than the RDAP ceiling
PipelineBatch == [i \in 1..(RDAP_CONCURRENCY + ExtraQueued) |-> D_acom]

\* the same batch followed by a domain that has no RDAP endpoint
MixedBatch == PipelineBatch \o <<D_cdev>>

\* the inputs callers pass: any sequence of up to MaxInput of the strings
\* above, or one of the long batches
AnyInput == SeqsUpTo(Domains, MaxInput)
\* single strings that go straight to the whois pass when the directory is
\* the hardcoded table
WhoisOnlyInputs == {<<D_bIO>>, <<D_cdev>>, <<D_inject>>, <<D_empty>>}

Inputs(callers) ==
    IF callers = "any" THEN AnyInput
    ELSE IF callers = "batch" THEN {PipelineBatch, MixedBatch}
    ELSE IF callers = "single" THEN {<<d>> : d \in Domains}
    ELSE IF callers = "queue"
    THEN {head \o [i \in 1..(WHOIS_CONCURRENCY + ExtraQueued) |-> D_cdev] :
             head \in {<<>>, <<D_acom>>}}
    ELSE IF callers = "pair" THEN {<<D_bIO, D_cdev>>, <<D_acom, D_bIO>>}
    ELSE IF callers = "args"
    THEN SeqsUpTo({D_bIO, D_cdev, D_inject, D_ctor}, MaxInput) \ {<<>>}
    ELSE WhoisOnlyInputs

Env(callers, boot, rdap, whois) ==
    [callers |-> callers, boot |-> boot, rdap |-> rdap, whois |-> whois]

(***************************************************************************)
(* Actions.  Each runs one continuation of the event loop to its end: the  *)
(* callback of a settled fetch or whois run, and every promise reaction    *)
(* it triggers before the loop is idle again.                              *)
(***************************************************************************)
BootCount(frame) ==
    Cardinality({i \in DOMAIN frame.rdapTasks : frame.rdapTasks[i].state = "boot"})

\* history of the directory: the map the first completed
\* getBootstrapServers call returned, the number of fetches issued up to
\* then, and whether every call completed since has returned that same map
Populate(servers) ==
    IF populated = None
    THEN Some([servers |-> servers, fetches |-> fetchCount, same |-> TRUE])
    ELSE Some([The(populated) EXCEPT !.same = @ /\ servers = The(populated).servers])

\* a caller calls checkDomains(domains); line 295 either returns the cache
\* or issues the fetch
CheckDomains(c) ==
    /\ calls[c].pc = "idle"
    /\ \E domains \in Inputs(env.callers) :
         LET entered == [IdleFrame EXCEPT !.domains = domains] IN
         IF bootstrapCache # None
         THEN /\ calls' = [calls EXCEPT ![c] =
                    Settle(BeginRdap(entered, The(bootstrapCache), bootstrapCache))]
              /\ populated' = Populate(The(bootstrapCache))
              /\ fetchCount' = fetchCount
         ELSE /\ calls' = [calls EXCEPT ![c] = [entered EXCEPT !.pc = "boot"]]
              /\ populated' = populated
              /\ fetchCount' = fetchCount + 1
    /\ UNCHANGED <<probe, rt, bootstrapCache, env>>

\* the fetch issued by checkDomains' own getBootstrapServers call settles
BootstrapAnswered(c) ==
    /\ calls[c].pc = "boot"
    /\ \E r \in {BootstrapFetched(bootstrapCache, resp) : resp \in env.boot} :
         LET frame == Settle(BeginRdap(calls[c], r.servers, r.cache))
         IN /\ bootstrapCache' = r.cache
            /\ calls' = [calls EXCEPT ![c] = frame]
            /\ populated' = Populate(r.servers)
            /\ fetchCount' = fetchCount + BootCount(frame)
    /\ UNCHANGED <<probe, rt, env>>

\* the fetch issued by getBootstrapServers inside task i's checkViaRdapOnly
\* settles
TaskBootstrapAnswered(c, i) ==
    /\ calls[c].pc = "rdap"
    /\ calls[c].rdapTasks[i].state = "boot"
    /\ \E r \in {BootstrapFetched(bootstrapCache, resp) : resp \in env.boot} :
         LET routed == [calls[c].rdapTasks EXCEPT ![i] = RdapOnlyRoute(@, r.servers)]
             frame == Settle([calls[c] EXCEPT !.rdapTasks = Pump("rdap", routed, r.cache)])
         IN /\ bootstrapCache' = r.cache
            /\ calls' = [calls EXCEPT ![c] = frame]
            /\ populated' = Populate(r.servers)
            /\ fetchCount' = fetchCount + BootCount(frame) - (BootCount(calls[c]) - 1)
    /\ UNCHANGED <<probe, rt, env>>

\* the last request of task i's RDAP lookup settles
RdapAnswered(c, i) ==
    /\ calls[c].pc = "rdap"
    /\ calls[c].rdapTasks[i].state = "lookup"
    /\ \E task \in RdapOnlyLeave(calls[c].rdapTasks[i], env.rdap) :
         LET left == [calls[c].rdapTasks EXCEPT ![i] = task]
             frame == Settle([calls[c] EXCEPT
                                !.rdapTasks = Pump("rdap", left, bootstrapCache)])
         IN /\ calls' = [calls EXCEPT ![c] = frame]
            /\ fetchCount' = fetchCount + BootCount(frame) - BootCount(calls[c])
    /\ UNCHANGED <<probe, rt, bootstrapCache, env, populated>>

\* the last run of task i's whois lookup settles
WhoisAnswered(c, i) ==
    /\ calls[c].pc = "whois"
    /\ calls[c].whoisTasks[i].state = "lookup"
    /\ \E task \in WhoisLeave(calls[c].whoisTasks[i], env.whois) :
         LET left == [calls[c].whoisTasks EXCEPT ![i] = task]
             frame == Settle([calls[c] EXCEPT !.whoisTasks = Pump("whois", left, None)])
         IN calls' = [calls EXCEPT ![c] = frame]
    /\ UNCHANGED <<probe, rt, bootstrapCache, env, fetchCount, populated>>

(***************************************************************************)
(* Spec: one checkDomains call in a fresh process, any input of up to      *)
(* MaxInput entries, any answers.                                          *)
(***************************************************************************)
Init ==
    /\ rt = RetryFrame(MAX_RETRIES)
    /\ bootstrapCache = None
    /\ calls = [c \in {1} |-> IdleFrame]
    /\ env = Env("any", BootResponses, RdapResponses, WhoisRunsOf)
    /\ fetchCount = 0
    /\ populated = None
    /\ probe = NoProbe

Next ==
    \/ \E c \in DOMAIN calls : CheckDomains(c)
    \/ \E c \in DOMAIN calls : BootstrapAnswered(c)
    \/ \E c \in DOMAIN calls : \E i \in DOMAIN calls[c].rdapTasks :
          TaskBootstrapAnswered(c, i)
    \/ \E c \in DOMAIN calls : \E i \in DOMAIN calls[c].rdapTasks :
          RdapAnswered(c, i)
    \/ \E c \in DOMAIN calls : \E i \in DOMAIN calls[c].whoisTasks :
          WhoisAnswered(c, i)

Spec == Init /\ [][Next]_vars

(***************************************************************************)
(* Properties of checkDomains, checked under Spec.                         *)
(***************************************************************************)
Callers == DOMAIN calls
Count(s, d) == Cardinality({i \in DOMAIN s : s[i] = d})
CountTasks(tasks, d) == Cardinality({i \in DOMAIN tasks : tasks[i].domain = d})

\* task t made every request withRetry allows and the last one failed too
RdapExhausted(t) ==
    /\ t.state = "done"
    /\ t.requests = MAX_RETRIES + 1
    /\ ~RdapOutcome(t.domain, t.last).ok

\* task t's lookup ended with the registry answering status
RdapAnsweredWith(t, status) ==
    /\ t.state = "done"
    /\ t.requests >= 1
    /\ t.last = HttpStatus(status)

\* C1: the sequence checkDomains returns is as long as its input and its
\* i-th result carries the i-th input string as domain.
C1_OutputMatchesInput ==
    \A c \in Callers :
        calls[c].pc = "done" =>
            /\ Len(calls[c].output) = Len(calls[c].domains)
            /\ \A i \in DOMAIN calls[c].domains :
                   calls[c].output[i].domain = calls[c].domains[i]

C1_Witness ==
    \E c \in Callers :
        /\ calls[c].pc = "done"
        /\ calls[c].domains = <<D_bIO, D_acom>>
        /\ calls[c].output[1].domain = D_bIO

\* C2: a string that fails validation gets a result with error set and
\* available = FALSE, and no whois run and no RDAP request is started
\* with it.
C2_InvalidNeverLookedUp ==
    \A c \in Callers :
        /\ \A i \in DOMAIN calls[c].whoisTasks :
               ~isValidDomain(calls[c].whoisTasks[i].domain)
                   => calls[c].whoisTasks[i].requests = 0
        /\ \A i \in DOMAIN calls[c].rdapTasks :
               ~isValidDomain(calls[c].rdapTasks[i].domain)
                   => calls[c].rdapTasks[i].requests = 0
        /\ calls[c].pc = "done" =>
               \A i \in DOMAIN calls[c].domains :
                   ~isValidDomain(calls[c].domains[i])
                       => /\ calls[c].output[i].error # NoError
                          /\ ~calls[c].output[i].available

\* C3: when every request of a domain's RDAP lookup has failed, the domain
\* is looked up by whois and checkDomains returns a whois result for it,
\* not the RDAP error.
C3_FallbackResultIsLegacy ==
    \A c \in Callers : \A i \in DOMAIN calls[c].rdapTasks :
        LET t == calls[c].rdapTasks[i] IN
        RdapExhausted(t) =>
            /\ t.result.needsWhoisFallback
            /\ calls[c].pc \in {"rdap", "whois", "done"}
            /\ calls[c].pc \in {"whois", "done"} =>
                   \E k \in DOMAIN calls[c].whoisTasks :
                       /\ calls[c].whoisTasks[k].domain = t.domain
                       /\ calls[c].whoisTasks[k].state # "queued"
                            => calls[c].whoisTasks[k].requests >= 1
            /\ calls[c].pc = "done" =>
                   \A j \in DOMAIN calls[c].domains :
                       calls[c].domains[j] = t.domain =>
                           /\ \E k \in DOMAIN calls[c].whoisTasks :
                                  /\ calls[c].whoisTasks[k].domain = t.domain
                                  /\ calls[c].whoisTasks[k].requests >= 1
                                  /\ calls[c].output[j] = calls[c].whoisTasks[k].result
                           /\ calls[c].output[j].error # t.result.error

C3_Witness ==
    \E c \in Callers :
        /\ calls[c].pc = "done"
        /\ calls[c].domains = <<D_acom>>
        /\ RdapExhausted(calls[c].rdapTasks[1])
        /\ calls[c].output[1].available

\* C4: an RDAP lookup that the registry answers with 404 yields
\* available = TRUE without error, one answered with 200 yields
\* available = FALSE without error, and neither entry is handed to whois:
\* the whois tasks of a domain number at most its input entries other than
\* those answered 200 or 404.
C4_RegistryAnswerDecides ==
    \A c \in Callers :
        /\ \A i \in DOMAIN calls[c].rdapTasks :
               LET t == calls[c].rdapTasks[i] IN
               /\ RdapAnsweredWith(t, 404) =>
                      t.result = Result(t.domain, TRUE, NoError, FALSE)
               /\ RdapAnsweredWith(t, 200) =>
                      t.result = Result(t.domain, FALSE, NoError, FALSE)
        /\ calls[c].pc \in {"whois", "done"} =>
               \A d \in Range(calls[c].domains) :
                   CountTasks(calls[c].whoisTasks, d)
                     + Cardinality({i \in DOMAIN calls[c].rdapTasks :
                                      /\ calls[c].rdapTasks[i].domain = d
                                      /\ \/ RdapAnsweredWith(calls[c].rdapTasks[i], 404)
                                         \/ RdapAnsweredWith(calls[c].rdapTasks[i], 200)})
                     <= Count(calls[c].domains, d)

C4_Witness ==
    \E c \in Callers :
        /\ calls[c].pc = "done"
        /\ calls[c].domains = <<D_acom, D_acom>>
        /\ RdapAnsweredWith(calls[c].rdapTasks[1], 404)
        /\ calls[c].rdapTasks[1].requests = 2
        /\ RdapAnsweredWith(calls[c].rdapTasks[2], 200)
        /\ calls[c].whoisTasks = <<>>

\* fetches of the bootstrap document issued and not yet answered
FetchesInFlight ==
    LET n[S \in SUBSET Callers] ==
            IF S = {} THEN 0
            ELSE LET c == CHOOSE x \in S : TRUE IN
                 (IF calls[c].pc = "boot" THEN 1 ELSE 0) + BootCount(calls[c])
                   + n[S \ {c}]
    IN n[Callers]

\* C5: callers that reach getBootstrapServers before the directory is
\* populated share one fetch of the bootstrap document: no second fetch is
\* issued while one is in flight.
C5_OneFetchForConcurrentCallers == FetchesInFlight <= 1

\* C6: once a getBootstrapServers call has completed, by a fetched document
\* or by the hardcoded table, the directory it returned is cached: no
\* further fetch is issued and every later call returns that same map.
C6_CachedOncePopulated ==
    populated # None =>
        /\ fetchCount = The(populated).fetches
        /\ The(populated).same

\* C9: checkDomains never rejects: no lookup task rejects, a call that has
\* started is either waiting for an answer still in flight or has returned
\* a result sequence of the full input length.
C9_NeverRejects ==
    \A c \in Callers :
        /\ calls[c].pc # "rejected"
        /\ ~AnyRejected(calls[c].rdapTasks)
        /\ ~AnyRejected(calls[c].whoisTasks)
        /\ calls[c].pc = "rdap" => Active(calls[c].rdapTasks) > 0
        /\ calls[c].pc = "whois" => Active(calls[c].whoisTasks) > 0
        /\ calls[c].pc = "done" => Len(calls[c].output) = Len(calls[c].domains)

C9_Witness ==
    \E c \in Callers :
        /\ calls[c].pc = "done"
        /\ bootstrapCache = None
        /\ calls[c].domains = <<D_acom, D_inject>>
        /\ calls[c].output[1].error = "Command failed: whois"
        /\ calls[c].output[2].error = "Command failed: whois"


\* the entry d of the batch went to the whois pass at the partition (no
\* RDAP endpoint in the directory) and the whois server table has no entry
\* for its last label either
NoLookupMethod(frame, d) ==
    /\ d \in Range(frame.whoisOnlyDomains)
    /\ LastLabel(d) # <<>>
    /\ LastLabel(d) \notin DOMAIN WHOIS_SERVERS

Last(S) == CHOOSE i \in S : \A j \in S : j <= i

C13_NoResultMissing ==
    \A c \in Callers :
        calls[c].pc = "done" =>
            \A j \in DOMAIN calls[c].domains :
                /\ calls[c].output[j].error # "Result missing"
                /\ \/ \E k \in DOMAIN calls[c].whoisTasks :
                          /\ calls[c].whoisTasks[k].domain = calls[c].domains[j]
                          /\ calls[c].whoisTasks[k].result = calls[c].output[j]
                   \/ \E k \in DOMAIN calls[c].rdapTasks :
                          /\ calls[c].rdapTasks[k].domain = calls[c].domains[j]
                          /\ ~calls[c].rdapTasks[k].result.needsWhoisFallback
                          /\ calls[c].rdapTasks[k].result = calls[c].output[j]

C13_Witness ==
    \E c \in Callers :
        /\ calls[c].pc = "done"
        /\ calls[c].domains = <<D_empty, D_cdev>>
        /\ calls[c].output[1].error = "Invalid domain"
        /\ calls[c].output[2].error = "Command failed: whois"

\* C17: a domain that has a whois result in the batch is reported with the
\* whois result (the last one made for it), also where an RDAP lookup of the
\* same domain succeeded; a domain with RDAP successes only is reported
\* with an RDAP result of its own (the last one made for it).
C17_LegacyResultWins ==
    \A c \in Callers :
        calls[c].pc = "done" =>
            \A j \in DOMAIN calls[c].domains :
                LET d == calls[c].domains[j]
                    w == {k \in DOMAIN calls[c].whoisTasks :
                            calls[c].whoisTasks[k].domain = d}
                    r == {k \in DOMAIN calls[c].rdapTasks :
                            /\ calls[c].rdapTasks[k].domain = d
                            /\ ~calls[c].rdapTasks[k].result.needsWhoisFallback}
                IN /\ w # {} => calls[c].output[j] = calls[c].whoisTasks[Last(w)].result
                   /\ (w = {} /\ r # {})
                        => calls[c].output[j] = calls[c].rdapTasks[Last(r)].result
                   /\ w # {} \/ r # {}

C17_Witness ==
    \E c \in Callers :
        /\ calls[c].pc = "done"
        /\ calls[c].domains = <<D_acom, D_acom>>
        /\ RdapAnsweredWith(calls[c].rdapTasks[1], 404)
        /\ RdapExhausted(calls[c].rdapTasks[2])
        /\ calls[c].whoisTasks[1].last = WhoisExit(T_record)
        /\ calls[c].output[1] = Result(D_acom, FALSE, NoError, FALSE)
        /\ calls[c].output[1] # calls[c].rdapTasks[1].result

\* C22: every result checkDomains returns, and every result a lookup task
\* settles with, has isPremium = FALSE: after an RDAP answer, after a whois
\* run, after any error and for an invalid string.
C22_NeverPremium ==
    \A c \in Callers :
        /\ \A j \in DOMAIN calls[c].output : ~calls[c].output[j].isPremium
        /\ \A i \in DOMAIN calls[c].rdapTasks : ~calls[c].rdapTasks[i].result.isPremium
        /\ \A k \in DOMAIN calls[c].whoisTasks : ~calls[c].whoisTasks[k].result.isPremium

C22_Witness ==
    \E c \in Callers :
        /\ calls[c].pc = "done"
        /\ calls[c].domains = <<D_acom, D_bIO>>
        /\ RdapAnsweredWith(calls[c].rdapTasks[1], 404)
        /\ calls[c].output[1].available
        /\ calls[c].output[2].available
        /\ ~calls[c].output[1].isPremium
        /\ ~calls[c].output[2].isPremium
\* C23: no RDAP request is issued for a string that fails isValidDomain:
\* an RDAP task that is waiting for the directory, that has made a request
\* or that holds an endpoint is for a valid string, and the task of an
\* invalid string ends with "Invalid domain format" and no request.
C23_RdapOnlyAfterValidation ==
    \A c \in Callers : \A i \in DOMAIN calls[c].rdapTasks :
        LET t == calls[c].rdapTasks[i] IN
        /\ (t.state \in InFlight \/ t.requests >= 1 \/ t.server # NoUrl)
              => isValidDomain(t.domain)
        /\ (t.state = "done" /\ ~isValidDomain(t.domain))
              => /\ t.requests = 0
                 /\ t.result = Result(t.domain, FALSE, "Invalid domain format", FALSE)

C23_Witness ==
    \E c \in Callers :
        /\ calls[c].pc = "done"
        /\ calls[c].domains = <<D_space, D_acom>>
        /\ calls[c].rdapDomains = <<D_space, D_acom>>
        /\ calls[c].rdapTasks[1].requests = 0
        /\ calls[c].rdapTasks[2].requests = 3
        /\ calls[c].output[1].error = "Invalid domain format"

\* C30: a result with available = TRUE is returned only for a string for
\* which an RDAP request was answered 404 or a whois run exited normally
\* with output that matches an availability pattern; a failed or exhausted
\* lookup and an invalid string never yield available = TRUE.
C30_ConservativeAvailability ==
    \A c \in Callers :
        calls[c].pc = "done" =>
            \A j \in DOMAIN calls[c].domains :
                LET d == calls[c].domains[j] IN
                calls[c].output[j].available =>
                    /\ isValidDomain(d)
                    /\ calls[c].output[j].error = NoError
                    /\ \/ \E i \in DOMAIN calls[c].rdapTasks :
                              /\ calls[c].rdapTasks[i].domain = d
                              /\ RdapAnsweredWith(calls[c].rdapTasks[i], 404)
                       \/ \E k \in DOMAIN calls[c].whoisTasks :
                              /\ calls[c].whoisTasks[k].domain = d
                              /\ calls[c].whoisTasks[k].last.kind = "exit0"
                              /\ SomePatternMatches(calls[c].whoisTasks[k].last.stdout)

\* C31: in every result checkDomains returns, and in every result a lookup
\* settles with, a present error goes with available = FALSE; hence
\* available = TRUE goes with an absent error.
C31_ErrorExcludesAvailable ==
    \A c \in Callers :
        /\ \A j \in DOMAIN calls[c].output :
               ~(calls[c].output[j].error # NoError /\ calls[c].output[j].available)
        /\ \A i \in DOMAIN calls[c].rdapTasks :
               ~(calls[c].rdapTasks[i].result.error # NoError
                   /\ calls[c].rdapTasks[i].result.available)
        /\ \A k \in DOMAIN calls[c].whoisTasks :
               ~(calls[c].whoisTasks[k].result.error # NoError
                   /\ calls[c].whoisTasks[k].result.available)

C31_Witness ==
    \E c \in Callers :
        /\ calls[c].pc = "done"
        /\ calls[c].domains = <<D_acom, D_bIO>>
        /\ RdapExhausted(calls[c].rdapTasks[1])
        /\ calls[c].output[1] = Result(D_acom, FALSE, "Command failed: whois", FALSE)
        /\ calls[c].output[2] = Result(D_bIO, TRUE, NoError, FALSE)

\* C32: every occurrence of a string in the input has a lookup task of its
\* own, yet all positions of the string hold one and the same result: that
\* of the last whois task for the string if there is one, else that of the
\* last RDAP task for it that did not ask for whois; also when the
\* occurrences' lookups ended differently.
C32_DuplicatesShareLastResult ==
    \A c \in Callers :
        /\ calls[c].pc \in {"rdap", "whois", "done"} =>
               \A d \in Range(calls[c].domains) :
                   CountTasks(calls[c].rdapTasks, d) + Count(calls[c].whoisOnlyDomains, d)
                      = Count(calls[c].domains, d)
        /\ calls[c].pc = "done" =>
               \A i \in DOMAIN calls[c].domains :
                   LET d == calls[c].domains[i]
                       w == {k \in DOMAIN calls[c].whoisTasks :
                               calls[c].whoisTasks[k].domain = d}
                       r == {k \in DOMAIN calls[c].rdapTasks :
                               /\ calls[c].rdapTasks[k].domain = d
                               /\ ~calls[c].rdapTasks[k].result.needsWhoisFallback}
                   IN /\ \A j \in DOMAIN calls[c].domains :
                             calls[c].domains[j] = d => calls[c].output[j] = calls[c].output[i]
                      /\ calls[c].output[i] =
                             IF w # {} THEN calls[c].whoisTasks[Last(w)].result
                             ELSE calls[c].rdapTasks[Last(r)].result
                      /\ Cardinality(w) + Cardinality(r) = Count(calls[c].domains, d)

C32_Witness ==
    \E c \in Callers :
        /\ calls[c].pc = "done"
        /\ calls[c].domains = <<D_acom, D_acom>>
        /\ RdapAnsweredWith(calls[c].rdapTasks[1], 404)
        /\ RdapAnsweredWith(calls[c].rdapTasks[2], 200)
        /\ calls[c].rdapTasks[1].result.available
        /\ calls[c].output = <<calls[c].rdapTasks[2].result, calls[c].rdapTasks[2].result>>

(***************************************************************************)
(* SpecPipeline: one checkDomains call with a batch longer than the RDAP   *)
(* ceiling, alone or followed by a domain without RDAP endpoint, in a      *)
(* world whose registry gives every request the same answer and whose      *)
(* whois program ends every run the same way.  A registry that fails       *)
(* every request sends the whole batch on to the whois pass.               *)
(***************************************************************************)
InitPipeline ==
    /\ rt = RetryFrame(MAX_RETRIES)
    /\ bootstrapCache = None
    /\ calls = [c \in {1} |-> IdleFrame]
    /\ env \in {Env("batch", {BootResponse("json", Doc_io)}, {r}, {w}) :
                   r \in RdapResponses, w \in WhoisRunsOf}
    /\ fetchCount = 0
    /\ populated = None
    /\ probe = NoProbe

NextPipeline ==
    \/ \E c \in DOMAIN calls : CheckDomains(c)
    \/ \E c \in DOMAIN calls : BootstrapAnswered(c)
    \/ \E c \in DOMAIN calls : \E i \in DOMAIN calls[c].rdapTasks :
          RdapAnswered(c, i)
    \/ \E c \in DOMAIN calls : \E i \in DOMAIN calls[c].whoisTasks :
          WhoisAnswered(c, i)

SpecPipeline == InitPipeline /\ [][NextPipeline]_vars

\* C10: within one checkDomains call at most 10 RDAP lookups and at most 3
\* whois lookups are in flight at any moment, a lookup being in flight
\* from its start until its last retry has finished.
C10_CeilingsRespected ==
    \A c \in Callers :
        /\ Active(calls[c].rdapTasks) <= 10
        /\ Active(calls[c].whoisTasks) <= 3

C10_Witness ==
    \E c \in Callers :
        /\ Len(calls[c].rdapTasks) > 10
        /\ calls[c].pc = "whois"
        /\ Active(calls[c].whoisTasks) = 3
        /\ Queued(calls[c].whoisTasks) # {}

\* C14 (as stated): an entry whose lookup has not started is waiting for a
\* free slot of its own pipeline and for nothing else: while an RDAP task
\* is queued all RDAP slots are taken, and while an entry bound for whois
\* has no started whois task all whois slots are taken.
C14_OnlySlotsBlock ==
    \A c \in Callers :
        /\ Queued(calls[c].rdapTasks) # {}
             => Active(calls[c].rdapTasks) = RDAP_CONCURRENCY
        /\ Queued(calls[c].whoisTasks) # {}
             => Active(calls[c].whoisTasks) = WHOIS_CONCURRENCY
        /\ (calls[c].pc = "rdap" /\ calls[c].whoisOnlyDomains # <<>>)
             => Active(calls[c].whoisTasks) = WHOIS_CONCURRENCY

\* C14 (amended): within a pass an entry waits only for a free slot of its
\* pipeline, and slots are given in queue order; but no whois lookup of the
\* batch starts before every RDAP lookup of the batch has finished, so an
\* entry bound for whois waits for the slowest RDAP lookup.
C14_OnlySlotsBlockWithinPass ==
    \A c \in Callers :
        /\ Queued(calls[c].rdapTasks) # {}
             => Active(calls[c].rdapTasks) = RDAP_CONCURRENCY
        /\ Queued(calls[c].whoisTasks) # {}
             => Active(calls[c].whoisTasks) = WHOIS_CONCURRENCY
        /\ \A i \in Queued(calls[c].rdapTasks) :
               \A j \in DOMAIN calls[c].rdapTasks \ Queued(calls[c].rdapTasks) : j < i
        /\ \A i \in Queued(calls[c].whoisTasks) :
               \A j \in DOMAIN calls[c].whoisTasks \ Queued(calls[c].whoisTasks) : j < i
        /\ calls[c].pc = "rdap"
             => /\ calls[c].whoisTasks = <<>>
                /\ Active(calls[c].rdapTasks) > 0
        /\ calls[c].whoisTasks # <<>> => AllDone(calls[c].rdapTasks)
        /\ calls[c].pc \in {"whois", "done"}
             => Len(calls[c].whoisTasks) >= Len(calls[c].whoisOnlyDomains)

C14_Witness ==
    \E c \in Callers :
        /\ calls[c].pc = "rdap"
        /\ calls[c].domains = MixedBatch
        /\ calls[c].whoisOnlyDomains = <<D_cdev>>
        /\ Queued(calls[c].rdapTasks) # {}
        /\ Active(calls[c].rdapTasks) = RDAP_CONCURRENCY

\* C25: within one checkDomains call no whois lookup exists, let alone has
\* started, while an RDAP lookup of the batch is queued or in flight (a
\* lookup is in flight until its last retry is over); this holds for the
\* entries without RDAP endpoint too, which wait although they need no
\* RDAP lookup.
C25_TwoPassOrdering ==
    \A c \in Callers :
        /\ calls[c].pc = "rdap" => calls[c].whoisTasks = <<>>
        /\ (\E i \in DOMAIN calls[c].rdapTasks :
                calls[c].rdapTasks[i].state \in InFlight \cup {"queued"})
             => \A k \in DOMAIN calls[c].whoisTasks :
                    /\ calls[c].whoisTasks[k].state = "queued"
                    /\ calls[c].whoisTasks[k].requests = 0
        /\ \A k \in DOMAIN calls[c].whoisTasks :
               calls[c].whoisTasks[k].requests >= 1
                  => /\ AllDone(calls[c].rdapTasks)
                     /\ Len(calls[c].rdapTasks) = Len(calls[c].rdapDomains)

C25_Witness ==
    \E c \in Callers :
        /\ calls[c].pc = "whois"
        /\ calls[c].domains = MixedBatch
        /\ calls[c].whoisTasks[1].domain = D_cdev
        /\ calls[c].whoisTasks[1].state = "lookup"
        /\ calls[c].rdapTasks[RDAP_CONCURRENCY + ExtraQueued].requests = MAX_RETRIES + 1

(***************************************************************************)
(* SpecWhois: one checkDomains call for a single string that goes straight *)
(* to the whois pass (the bootstrap fetch fails, so the directory is the   *)
(* hardcoded table), the whois program printing any of the sample texts    *)
(* or failing.                                                             *)
(***************************************************************************)
InitWhois ==
    /\ rt = RetryFrame(MAX_RETRIES)
    /\ bootstrapCache = None
    /\ calls = [c \in {1} |-> IdleFrame]
    /\ env = Env("whois", {BootResponse("throw", <<>>)}, {}, WhoisSampleRuns)
    /\ fetchCount = 0
    /\ populated = None
    /\ probe = NoProbe

NextWhois ==
    \/ \E c \in DOMAIN calls : CheckDomains(c)
    \/ \E c \in DOMAIN calls : BootstrapAnswered(c)
    \/ \E c \in DOMAIN calls : \E i \in DOMAIN calls[c].whoisTasks :
          WhoisAnswered(c, i)

SpecWhois == InitWhois /\ [][NextWhois]_vars

\* the sample lines that announce an unregistered domain:
\* "No match for domain.", "NOT FOUND" and "Status:\t free"
AvailabilityLines == {WhoisLines[1], WhoisLines[3], WhoisLines[5]}

\* C15: when a whois run exits normally, checkViaWhois returns a result
\* without error whose available field is TRUE exactly when some pattern
\* of the table matches the output: TRUE for output with a line such as
\* "No match for domain.", FALSE for empty output and for registrant
\* records.
C15_AvailableIffPatternMatches ==
    \A c \in Callers : \A k \in DOMAIN calls[c].whoisTasks :
        LET t == calls[c].whoisTasks[k] IN
        (t.state = "done" /\ t.last.kind = "exit0") =>
            /\ t.result.domain = t.domain
            /\ t.result.error = NoError
            /\ t.result.available
                 <=> \E n \in DOMAIN WHOIS_AVAILABLE_PATTERNS :
                        PatternTest(WHOIS_AVAILABLE_PATTERNS[n], t.last.stdout)
            /\ t.result.available
                 <=> \E l \in Range(split(t.last.stdout, "\n")) : l \in AvailabilityLines
            /\ t.last.stdout \in {<<>>, T_record, WhoisLines[2]} => ~t.result.available
            /\ calls[c].pc = "done" => calls[c].output[k] = t.result

C15_Witness ==
    \E c \in Callers :
        /\ calls[c].pc = "done"
        /\ calls[c].domains = <<D_cdev>>
        /\ calls[c].whoisTasks[1].last = WhoisExit(Join(<<WhoisLines[2], WhoisLines[3]>>, "\n"))
        /\ calls[c].output[1] = Result(D_cdev, TRUE, NoError, FALSE)

\* C16: when every whois run fails, checkViaWhois does not reject: after
\* exactly 3 runs it returns a result with available = FALSE and the last
\* run's failure as error.
C16_WhoisFailureIsResult ==
    \A c \in Callers : \A k \in DOMAIN calls[c].whoisTasks :
        LET t == calls[c].whoisTasks[k] IN
        /\ t.state # "rejected"
        /\ t.requests <= MAX_RETRIES + 1
        /\ (t.state = "done" /\ t.requests >= 1 /\ t.last.kind = "fail") =>
              /\ t.requests = 3
              /\ t.last.message # NoError
              /\ t.result = Result(t.domain, FALSE, t.last.message, FALSE)
              /\ calls[c].pc = "done" => calls[c].output[k] = t.result

C16_Witness ==
    \E c \in Callers :
        /\ calls[c].pc = "done"
        /\ calls[c].domains = <<D_bIO>>
        /\ calls[c].whoisTasks[1].requests = 3
        /\ calls[c].output[1] = Result(D_bIO, FALSE, "spawn whois ENOENT", FALSE)


(***************************************************************************)
(* SpecBootstrap: one checkDomains call for a single string in a world     *)
(* that gives every fetch of the bootstrap document the same answer, any   *)
(* of the sample answers.                                                  *)
(***************************************************************************)
InitBootstrap ==
    /\ rt = RetryFrame(MAX_RETRIES)
    /\ bootstrapCache = None
    /\ calls = [c \in {1} |-> IdleFrame]
    /\ env \in {Env("single", {resp},
                    {HttpStatus(404), FetchFail("fetch failed")},
                    {WhoisExit(T_nomatch), WhoisFail("Command failed: whois")}) :
                  resp \in BootSamples}
    /\ fetchCount = 0
    /\ populated = None
    /\ probe = NoProbe

SpecBootstrap == InitBootstrap /\ [][Next]_vars

\* the answer this world gives to the bootstrap fetch
BootAnswer == The(env.boot)

\* the fetch threw or timed out, the status was no success, or the body is
\* no list of entries
BootFails(resp) ==
    \/ resp.kind \in {"throw", "status", "badjson", "nolist"}
    \/ \E i \in DOMAIN resp.services : resp.services[i].bad

\* C18: when the bootstrap fetch fails, no call rejects, every
\* getBootstrapServers call returns exactly the hardcoded table, domains
\* are partitioned and routed by that table, and the results carry no
\* error other than those of validation and of the lookups.
C18_FetchFailureFallsBack ==
    BootFails(BootAnswer) =>
        /\ populated # None =>
              /\ The(populated).servers = RDAP_SERVERS
              /\ The(populated).same
        /\ \A c \in Callers :
              /\ calls[c].pc # "rejected"
              /\ ~AnyRejected(calls[c].rdapTasks)
              /\ calls[c].pc \notin {"idle", "boot"} =>
                    /\ \A d \in Range(calls[c].domains) :
                          d \in Range(calls[c].rdapDomains)
                             <=> LastLabel(d) \in DOMAIN RDAP_SERVERS
                    /\ \A i \in DOMAIN calls[c].rdapTasks :
                          calls[c].rdapTasks[i].requests >= 1 =>
                             calls[c].rdapTasks[i].server
                                = RDAP_SERVERS[LastLabel(calls[c].rdapTasks[i].domain)]
              /\ calls[c].pc = "done" =>
                    \A j \in DOMAIN calls[c].output :
                        calls[c].output[j].error
                           \in {NoError, "Invalid domain format", "Invalid domain",
                                "Command failed: whois"}

C18_Witness ==
    \E c \in Callers :
        /\ BootAnswer = BootResponse("json", <<BootEntries[1], BootEntries[6]>>)
        /\ calls[c].pc = "done"
        /\ calls[c].domains = <<D_bIO>>
        /\ calls[c].rdapTasks = <<>>
        /\ calls[c].output[1] = Result(D_bIO, TRUE, NoError, FALSE)

\* the URL with one trailing slash removed
OneSlashLess(url) ==
    [body |-> url.body, slashes |-> IF url.slashes = 0 THEN 0 ELSE url.slashes - 1]

\* C19 (as stated): after a successful fetch the directory maps every TLD
\* listed in an entry with a non-empty URL list, lowercased, to that
\* entry's first URL less one trailing slash; hardcoded TLDs the document
\* does not list keep their endpoint; the directory has every hardcoded
\* key.
C19_EveryListedTldMapped ==
    (~BootFails(BootAnswer) /\ populated # None) =>
        LET m == The(populated).servers
            services == BootAnswer.services
        IN /\ \A i \in DOMAIN services :
                 services[i].urls # <<>> =>
                    \A k \in DOMAIN services[i].tlds :
                        LET t == toLowerCase(services[i].tlds[k]) IN
                        /\ t \in DOMAIN m
                        /\ m[t] = OneSlashLess(services[i].urls[1])
           /\ \A t \in DOMAIN RDAP_SERVERS :
                 (\A i \in DOMAIN services : \A k \in DOMAIN services[i].tlds :
                      toLowerCase(services[i].tlds[k]) # t)
                    => m[t] = RDAP_SERVERS[t]
           /\ DOMAIN RDAP_SERVERS \subseteq DOMAIN m

\* C19 (amended): after a successful fetch the directory, which is also
\* what the cache holds, has exactly the hardcoded keys and the lowercased
\* TLDs of the entries whose first URL is a non-empty string; each such TLD
\* maps to the first URL, less one trailing slash, of the last such entry
\* that lists it, and every other hardcoded TLD keeps its endpoint.
C19_LastUsableListingWins ==
    (~BootFails(BootAnswer) /\ populated # None) =>
        LET m == The(populated).servers
            services == BootAnswer.services
            usable == {i \in DOMAIN services :
                          services[i].urls # <<>> /\ services[i].urls[1] # Url("", 0)}
            tldsOf(i) == {toLowerCase(services[i].tlds[k]) : k \in DOMAIN services[i].tlds}
            listed == UNION {tldsOf(i) : i \in usable}
        IN /\ DOMAIN m = DOMAIN RDAP_SERVERS \cup listed
           /\ \A t \in listed :
                 m[t] = OneSlashLess(services[Last({i \in usable : t \in tldsOf(i)})].urls[1])
           /\ \A t \in DOMAIN RDAP_SERVERS \ listed : m[t] = RDAP_SERVERS[t]
           /\ bootstrapCache = Some(m)

C19_Witness ==
    \E c \in Callers :
        /\ BootAnswer = BootResponse("json", <<BootEntries[3], BootEntries[1]>>)
        /\ calls[c].pc = "done"
        /\ calls[c].domains = <<D_bIO>>
        /\ The(populated).servers[<<"c","o","m">>] = Url("https://rdap.example", 1)
        /\ calls[c].rdapTasks[1].server = Url("https://rdap.nic.io", 0)


(***************************************************************************)
(* SpecDirectory: one checkDomains call, any input of up to MaxInput       *)
(* entries, in a world where a fetch of the bootstrap document either      *)
(* fails or returns [[["COM"], ["/"]]], whose only URL is empty once its   *)
(* trailing slash is removed.                                              *)
(***************************************************************************)
InitDirectory ==
    /\ rt = RetryFrame(MAX_RETRIES)
    /\ bootstrapCache = None
    /\ calls = [c \in {1} |-> IdleFrame]
    /\ env = Env("any",
                 {BootResponse("throw", <<>>),
                  BootResponse("json", << Entry(<< <<"C","O","M">> >>, << Url("", 1) >>) >>)},
                 {HttpStatus(404), HttpStatus(200), HttpStatus(500)},
                 {WhoisExit(T_nomatch), WhoisFail("Command failed: whois")})
    /\ fetchCount = 0
    /\ populated = None
    /\ probe = NoProbe

SpecDirectory == InitDirectory /\ [][Next]_vars

\* the RDAP task found no endpoint when it consulted the directory again
NoEndpointOnRoute(t) ==
    t.state = "done" /\ t.requests = 0 /\ t.result.needsWhoisFallback

\* C24: the strings handed to the whois pass are, in this order, the input
\* entries whose last label has no RDAP endpoint in the directory the
\* partition used, then the strings of the RDAP tasks that are valid and
\* either failed on all 3 requests or found no endpoint in the directory;
\* a task answered 200 or 404 and the task of an invalid string never ask
\* for whois.
C24_LegacyInputSet ==
    \A c \in Callers :
        /\ \A i \in DOMAIN calls[c].rdapTasks :
               LET t == calls[c].rdapTasks[i] IN
               (\/ RdapAnsweredWith(t, 200)
                \/ RdapAnsweredWith(t, 404)
                \/ (t.state = "done" /\ ~isValidDomain(t.domain)))
                  => ~t.result.needsWhoisFallback
        /\ calls[c].pc \in {"whois", "done"} =>
               LET noEndpoint(d) == ~HasRdapServer(d, The(populated).servers)
                   failed(t) == /\ isValidDomain(t.domain)
                                /\ RdapExhausted(t) \/ NoEndpointOnRoute(t)
                   fallen == SelectSeq(calls[c].rdapTasks, failed)
               IN [k \in DOMAIN calls[c].whoisTasks |-> calls[c].whoisTasks[k].domain]
                    = SelectSeq(calls[c].domains, noEndpoint)
                        \o [i \in DOMAIN fallen |-> fallen[i].domain]

C24_Witness ==
    \E c \in Callers :
        /\ calls[c].pc = "done"
        /\ calls[c].domains = <<D_acom, D_space>>
        /\ calls[c].rdapDomains = <<D_acom, D_space>>
        /\ RdapExhausted(calls[c].rdapTasks[1])
        /\ calls[c].rdapTasks[2].result.error = "Invalid domain format"
        /\ Len(calls[c].whoisTasks) = 1
        /\ calls[c].whoisTasks[1].domain = D_acom

\* C29: every input entry has at most one RDAP lookup and at most one whois
\* lookup, each of at most 3 requests (6 operations per entry at most); an
\* entry whose RDAP lookup found an endpoint gets a whois lookup only when
\* all 3 of its RDAP requests failed.
C29_BoundedAmplification ==
    \A c \in Callers :
        /\ \A i \in DOMAIN calls[c].rdapTasks : calls[c].rdapTasks[i].requests <= 3
        /\ \A k \in DOMAIN calls[c].whoisTasks : calls[c].whoisTasks[k].requests <= 3
        /\ calls[c].pc \in {"rdap", "whois", "done"} =>
              /\ Len(calls[c].rdapTasks) + Len(calls[c].whoisOnlyDomains)
                    = Len(calls[c].domains)
              /\ \A d \in Range(calls[c].domains) :
                    /\ CountTasks(calls[c].rdapTasks, d) <= Count(calls[c].domains, d)
                    /\ CountTasks(calls[c].whoisTasks, d) <= Count(calls[c].domains, d)
        /\ \A i \in DOMAIN calls[c].rdapTasks :
               LET t == calls[c].rdapTasks[i] IN
               (t.server # NoUrl /\ t.state = "done" /\ t.result.needsWhoisFallback)
                  => /\ t.requests = 3
                     /\ t.last.kind = "throw" \/ t.last.status \notin {200, 404}
        /\ Len(calls[c].whoisTasks)
              = IF calls[c].pc \in {"whois", "done"}
                THEN Len(calls[c].whoisOnlyDomains)
                       + Cardinality({i \in DOMAIN calls[c].rdapTasks :
                                         calls[c].rdapTasks[i].result.needsWhoisFallback})
                ELSE 0

C29_Witness ==
    \E c \in Callers :
        /\ calls[c].pc = "done"
        /\ calls[c].domains = <<D_acom, D_acom>>
        /\ Len(calls[c].rdapTasks) = 2
        /\ calls[c].rdapTasks[1].requests = 3
        /\ RdapAnsweredWith(calls[c].rdapTasks[2], 404)
        /\ Len(calls[c].whoisTasks) = 1
        /\ calls[c].whoisTasks[1].requests = 3
        /\ calls[c].whoisTasks[1].last.kind = "fail"

InitArgs ==
    /\ rt = RetryFrame(MAX_RETRIES)
    /\ bootstrapCache = None
    /\ calls = [c \in {1} |-> IdleFrame]
    /\ env = Env("args", {BootResponse("throw", <<>>)},
                 {FetchFail("Failed to parse URL")},
                 {WhoisExit(T_nomatch), WhoisFail("Command failed: whois")})
    /\ fetchCount = 0
    /\ populated = None
    /\ probe = NoProbe

SpecArgs == InitArgs /\ [][Next]_vars

\* C21: every whois run is started with the argument vector
\* <<"-h", server, domain>> when the lowercased last label of the domain is
\* a key of WHOIS_SERVERS, and with <<domain>> otherwise; the domain is
\* the last argument, whole.
C21_ArgvByServerTable ==
    \A c \in Callers : \A k \in DOMAIN calls[c].whoisTasks :
        LET t == calls[c].whoisTasks[k]
            tld == LastLabel(t.domain)
        IN t.requests >= 1 =>
              /\ tld \in DOMAIN WHOIS_SERVERS
                    => t.args = << <<"-","h">>, WHOIS_SERVERS[tld], t.domain >>
              /\ tld \notin DOMAIN WHOIS_SERVERS => t.args = << t.domain >>
              /\ t.args[Len(t.args)] = t.domain
\* C26: every map getBootstrapServers returns and every value the cache
\* holds is the hardcoded table or holds every usable entry of a document
\* that was read to its end; when reading the document raises part-way,
\* the map returned is the hardcoded table, the cache stays empty and no
\* lookup is routed by an entry read before the failure.
C26_NoPartialDirectory ==
    LET services == BootAnswer.services
        whole == BootAnswer.kind = "json" /\ \A i \in DOMAIN services : ~services[i].bad
        merged(m) == whole /\ \A i \in DOMAIN services :
                        (services[i].urls # <<>> /\ services[i].urls[1] # Url("", 0))
                           => \A k \in DOMAIN services[i].tlds :
                                 toLowerCase(services[i].tlds[k]) \in DOMAIN m
    IN /\ bootstrapCache # None => merged(The(bootstrapCache))
       /\ populated # None =>
             /\ The(populated).same
             /\ \/ The(populated).servers = RDAP_SERVERS
                \/ merged(The(populated).servers)
       /\ ~whole =>
             /\ bootstrapCache = None
             /\ populated # None => The(populated).servers = RDAP_SERVERS
             /\ \A c \in Callers :
                   /\ \A d \in Range(calls[c].rdapDomains) :
                         LastLabel(d) \in DOMAIN RDAP_SERVERS
                   /\ \A i \in DOMAIN calls[c].rdapTasks :
                         calls[c].rdapTasks[i].requests >= 1 =>
                            calls[c].rdapTasks[i].server
                               = RDAP_SERVERS[LastLabel(calls[c].rdapTasks[i].domain)]

C26_Witness ==
    \E c \in Callers :
        /\ BootAnswer = BootResponse("json", <<BootEntries[3], BootEntries[6]>>)
        /\ calls[c].pc = "done"
        /\ calls[c].domains = <<D_bIO>>
        /\ calls[c].rdapDomains = <<>>
        /\ bootstrapCache = None
        /\ The(populated).servers = RDAP_SERVERS
        /\ calls[c].output[1].error = "Command failed: whois"

(***************************************************************************)
(* SpecShared: two callers in one process, each calling checkDomains once  *)
(* with two strings, at any time relative to the other.  The bootstrap     *)
(* fetch fails, so the directory is the hardcoded table.                   *)
(***************************************************************************)
InitShared ==
    /\ rt = RetryFrame(MAX_RETRIES)
    /\ bootstrapCache = None
    /\ calls = [c \in {1, 2} |-> IdleFrame]
    /\ env = Env("pair", {BootResponse("throw", <<>>)},
                 {HttpStatus(404), HttpStatus(500)},
                 {WhoisExit(T_nomatch), WhoisFail("Command failed: whois")})
    /\ fetchCount = 0
    /\ populated = None
    /\ probe = NoProbe

SpecShared == InitShared /\ [][Next]_vars

\* lookups in flight over all calls of the process
TotalActive(kind) ==
    LET n[S \in SUBSET Callers] ==
            IF S = {} THEN 0
            ELSE LET c == CHOOSE x \in S : TRUE IN
                 Active(IF kind = "rdap" THEN calls[c].rdapTasks ELSE calls[c].whoisTasks)
                   + n[S \ {c}]
    IN n[Callers]

\* C27: the ceilings hold over the whole process: with two checkDomains
\* calls running at once, at most 3 whois lookups and at most 10 RDAP
\* lookups are in flight in total.
C27_CeilingsProcessWide ==
    /\ TotalActive("whois") <= 3
    /\ TotalActive("rdap") <= 10

(***************************************************************************)
(* SpecLive: one checkDomains call with one string for the RDAP pass and   *)
(* more strings for the whois pass than the whois ceiling, in a world      *)
(* whose registry gives every request the same answer and whose whois      *)
(* program ends every run the same way, and where every fetch, request     *)
(* and whois run that has been started is eventually answered (weak        *)
(* fairness of the answering actions).  Whether the caller ever calls is   *)
(* left open.                                                              *)
(***************************************************************************)
InitLive ==
    /\ rt = RetryFrame(MAX_RETRIES)
    /\ bootstrapCache = None
    /\ calls = [c \in {1} |-> IdleFrame]
    /\ env \in {Env("queue", {BootResponse("throw", <<>>)}, {r}, {w}) :
                   r \in {HttpStatus(404), HttpStatus(500)},
                   w \in {WhoisExit(T_nomatch), WhoisFail("Command failed: whois")}}
    /\ fetchCount = 0
    /\ populated = None
    /\ probe = NoProbe

EveryAnswerArrives ==
    /\ WF_vars(BootstrapAnswered(1))
    /\ WF_vars(\E i \in DOMAIN calls[1].rdapTasks : TaskBootstrapAnswered(1, i))
    /\ WF_vars(\E i \in DOMAIN calls[1].rdapTasks : RdapAnswered(1, i))
    /\ WF_vars(\E i \in DOMAIN calls[1].whoisTasks : WhoisAnswered(1, i))

SpecLive == InitLive /\ [][Next]_vars /\ EveryAnswerArrives

\* C28: when every fetch, request and whois run eventually completes, a
\* checkDomains call that has been made eventually returns.
C28_EveryCallReturns == (calls[1].pc # "idle") ~> (calls[1].pc = "done")

\* the call has returned and the lookups that had to queue for a whois slot
\* have run, among them one that failed on every attempt
C28_Witness ==
    /\ calls[1].pc = "done"
    /\ Len(calls[1].whoisTasks) > WHOIS_CONCURRENCY
    /\ \A k \in DOMAIN calls[1].whoisTasks : calls[1].whoisTasks[k].requests >= 1
    /\ calls[1].whoisTasks[1].requests = MAX_RETRIES + 1
    /\ calls[1].whoisTasks[1].last.kind = "fail"

(***************************************************************************)
(* SpecRetry: one withRetry call, step by step, against an operation whose *)
(* outcome is chosen at each invocation.                                   *)
(***************************************************************************)
RetryValues == {"v1", "v2"}
RetryErrors == {"e1", "e2"}
RetryOutcomes == {Resolve(v) : v \in RetryValues} \cup {Reject(e) : e \in RetryErrors}

IdleCalls == <<>>
IdleEnv == Env("none", {}, {}, {})

InitRetry ==
    /\ rt \in {RetryFrame(r) : r \in 0..MaxRetriesArg}
    /\ bootstrapCache = None
    /\ calls = IdleCalls
    /\ env = IdleEnv
    /\ fetchCount = 0
    /\ populated = None
    /\ probe = NoProbe

Invoke ==
    /\ rt.status = "invoke"
    /\ \E o \in RetryOutcomes : rt' = RetryInvoke(rt, o)
    /\ UNCHANGED <<bootstrapCache, calls, env, fetchCount, populated, probe>>

Wake ==
    /\ rt.status = "sleep"
    /\ rt' = RetryWake(rt)
    /\ UNCHANGED <<bootstrapCache, calls, env, fetchCount, populated, probe>>

NextRetry == Invoke \/ Wake

SpecRetry == InitRetry /\ [][NextRetry]_vars

AllFailed(log) == \A i \in DOMAIN log : ~log[i].ok

\* C7: with the default ceiling, an operation that fails twice and then
\* succeeds makes withRetry return that success after exactly 3 invocations,
\* having slept 1000 ms and then 2000 ms; no invocation follows a success.
C7_FailTwiceThenSucceed ==
    /\ \A i \in 1..(Len(rt.log) - 1) : ~rt.log[i].ok
    /\ rt.status = "returned" => rt.log[Len(rt.log)].ok
    /\ (rt.retries = MAX_RETRIES /\ Len(rt.log) = 2 /\ AllFailed(rt.log))
          => rt.status \in {"sleep", "invoke"}
    /\ (rt.retries = MAX_RETRIES /\ Len(rt.log) = 3
          /\ ~rt.log[1].ok /\ ~rt.log[2].ok /\ rt.log[3].ok)
          => /\ rt.status = "returned"
             /\ rt.value = rt.log[3].value
             /\ rt.sleeps = <<1000, 2000>>

C7_Witness ==
    /\ rt.retries = MAX_RETRIES
    /\ rt.status = "returned"
    /\ Len(rt.log) = 3

\* C8: an operation that fails on every attempt is invoked exactly
\* retries + 1 times (3 by default), no sleep follows the final failure, and
\* the error raised is that of the last attempt.
C8_AllAttemptsFail ==
    /\ Len(rt.log) <= rt.retries + 1
    /\ Len(rt.log) = rt.retries + 1 => rt.status # "sleep"
    /\ (Len(rt.log) = rt.retries + 1 /\ AllFailed(rt.log))
          => /\ rt.status = "thrown"
             /\ Len(rt.sleeps) = rt.retries
             /\ rt.lastError = rt.log[Len(rt.log)].error
    /\ rt.status = "thrown"
          => /\ Len(rt.log) = rt.retries + 1
             /\ AllFailed(rt.log)
    /\ (rt.status = "thrown" /\ rt.retries = MAX_RETRIES) => Len(rt.log) = 3

C8_Witness ==
    /\ rt.retries = MAX_RETRIES
    /\ rt.status = "thrown"
    /\ rt.log[1].error # rt.log[3].error

(***************************************************************************)
(* SpecValidate: one isValidDomain call on a sample string: up to          *)
(* MaxLabels sample labels joined by dots, or four long labels that make   *)
(* 253 and 254 characters.                                                 *)
(***************************************************************************)
Repeat(ch, n) == [i \in 1..n |-> ch]

LabelSamples == <<
    <<"a">>,
    <<"A","1">>,
    <<"x","-","y">>,
    <<"a","-","-","b">>,
    <<"-","a">>,
    <<"a","-">>,
    <<>>,
    <<"a"," ","b">>,
    <<"a",";","b">>,
    <<"a","_","b">>,
    Repeat("a", LABEL_INNER_MAX + 2),     \* 63 characters
    Repeat("a", LABEL_INNER_MAX + 3)      \* 64 characters
>>

\* 63.63.63.n characters
LongDomain(n) ==
    Join(<<LabelSamples[11], LabelSamples[11], LabelSamples[11], Repeat("b", n)>>, ".")

ValidateInputs ==
    {Join(ls, ".") : ls \in SeqsUpTo(Range(LabelSamples), MaxLabels)}
      \cup {LongDomain(61), LongDomain(62)}
      \cup Domains

InitValidate ==
    /\ rt = RetryFrame(MAX_RETRIES)
    /\ bootstrapCache = None
    /\ calls = IdleCalls
    /\ env = IdleEnv
    /\ fetchCount = 0
    /\ populated = None
    /\ probe \in {[state |-> "called", domain |-> d, value |-> FALSE] : d \in ValidateInputs}

Validate ==
    /\ probe.state = "called"
    /\ probe' = [probe EXCEPT !.state = "returned", !.value = isValidDomain(probe.domain)]
    /\ UNCHANGED <<rt, bootstrapCache, calls, env, fetchCount, populated>>

SpecValidate == InitValidate /\ [][Validate]_vars

\* the claim's description of an acceptable string, read position by
\* position: 1 to 253 characters, each a letter, a digit, a hyphen or a
\* dot; a hyphen or a dot neither first nor last; no dot next to a dot or to
\* a hyphen; no 64 characters in a row without a dot
WellFormedName(s) ==
    /\ Len(s) >= 1
    /\ Len(s) <= 253
    /\ \A i \in DOMAIN s :
          s[i] \in Range(LowerLetters) \cup Range(UpperLetters) \cup Digits \cup {"-", "."}
    /\ s[1] \notin {"-", "."}
    /\ s[Len(s)] \notin {"-", "."}
    /\ \A i \in 1..(Len(s) - 1) :
          /\ s[i] = "." => s[i + 1] \notin {"-", "."}
          /\ s[i + 1] = "." => s[i] \notin {"-", "."}
    /\ \A i \in 1..(Len(s) - 63) : \E k \in i..(i + 63) : s[k] = "."

\* C20: isValidDomain returns TRUE exactly for the non-empty strings of at
\* most 253 characters made of dot-separated labels of 1 to 63 letters,
\* digits and hyphens that neither start nor end with a hyphen; the empty
\* string, an empty label, a blank, a semicolon and 254 characters are
\* rejected.
C20_AcceptsExactlyWellFormed ==
    probe.state = "returned" =>
        /\ probe.value <=> WellFormedName(probe.domain)
        /\ probe.domain \in {D_empty, D_inject, D_space, LongDomain(62),
                             <<"a",".">>, <<".","a">>}
             => ~probe.value

C20_Witness ==
    /\ probe.state = "returned"
    /\ probe.domain = LongDomain(61)
    /\ Len(probe.domain) = 253
    /\ probe.value

(***************************************************************************)
(* generate.ts (unnamed/part_001:466-529): generateDomainIdeas cleans the  *)
(* names the language model returned and drops those that are too short,   *)
(* too long or repeated; combineWithTlds makes one candidate per idea and  *)
(* TLD.  searchDomains (search.ts:36-44) calls one after the other.        *)
(***************************************************************************)
cleanName_noTrim(name, allowHyphens) ==
    LET lower == toLowerCase(name)
        kept(ch) == ch \in Range(LowerLetters) \cup Digits \/ (allowHyphens /\ ch = "-")
        cleaned == SelectSeq(lower, kept)
        heads == {i \in DOMAIN cleaned :
                    cleaned[i] # "-" \/ i = 1 \/ cleaned[i - 1] # "-"}
    IN [k \in 1..Cardinality(heads) |->
           cleaned[CHOOSE i \in heads : Cardinality({j \in heads : j <= i}) = k]]

\* item.name.toLowerCase().replace(cleanPattern, "")
\*     .replace(/^-+|-+$/g, "").replace(/-{2,}/g, "-")
cleanName(name, allowHyphens) ==
    LET lower == toLowerCase(name)
        kept(ch) == ch \in Range(LowerLetters) \cup Digits \/ (allowHyphens /\ ch = "-")
        cleaned == SelectSeq(lower, kept)
        inner == {i \in DOMAIN cleaned : cleaned[i] # "-"}
        trimmed == IF inner = {} THEN <<>> ELSE SubSeq(cleaned, Min(inner), Last(inner))
        heads == {i \in DOMAIN trimmed :
                    trimmed[i] # "-" \/ i = 1 \/ trimmed[i - 1] # "-"}
    IN [k \in 1..Cardinality(heads) |->
           trimmed[CHOOSE i \in heads : Cardinality({j \in heads : j <= i}) = k]]

\* object is what generateObject returned.  The filter callback keeps an
\* item when its name has 3 to 20 characters and is not in `seen`; `seen`
\* holds the names of the items kept so far, and an earlier item of the same
\* name has the same length, so an item is kept exactly when its length fits
\* and no earlier item has its name.
generateDomainIdeas(object, options) ==
    LET allowHyphens == IF options.allowHyphens = None THEN TRUE
                        ELSE The(options.allowHyphens)
        mapped == [i \in DOMAIN object.names |->
                     [name |-> cleanName(object.names[i].name, allowHyphens),
                      wordCount |-> object.names[i].wordCount]]
        keeps == {i \in DOMAIN mapped :
                    /\ ~(Len(mapped[i].name) < 3 \/ Len(mapped[i].name) > 20)
                    /\ \A j \in 1..(i - 1) : mapped[j].name # mapped[i].name}
    IN [ideas |-> [k \in 1..Cardinality(keeps) |->
                      mapped[CHOOSE i \in keeps : Cardinality({j \in keeps : j <= i}) = k]],
        reasoning |-> object.reasoning]

\* for each idea, for each tld: one candidate, in this order
combineWithTlds(ideas, tlds) ==
    [k \in 1..(Len(ideas) * Len(tlds)) |->
        LET idea == ideas[((k - 1) \div Len(tlds)) + 1]
            lower == toLowerCase(tlds[((k - 1) % Len(tlds)) + 1])
            cleanTld == IF lower # <<>> /\ lower[1] = "." THEN Tail(lower) ELSE lower
        IN [domain |-> idea.name \o <<".">> \o cleanTld,
            baseName |-> idea.name,
            tld |-> cleanTld,
            wordCount |-> idea.wordCount]]

(***************************************************************************)
(* SpecGenerate: one generateDomainIdeas call followed by combineWithTlds. *)
(* The language model returned one name of up to MaxRaw characters out of  *)
(* "A", "1", "-" and "_", one long name around the 20 character limit, or  *)
(* two names that clean to equal or nearly equal strings.                  *)
(***************************************************************************)
RawNames ==
    LET short == SeqsUpTo({"A", "1", "-", "_"}, MaxRaw)
        long == {Repeat("a", 20), Repeat("a", 21),
                 Repeat("a", 10) \o <<"-", "-">> \o Repeat("b", 9),
                 <<"-">> \o Repeat("a", 20) \o <<"-", "!">>,
                 Repeat("a", 10) \o <<"-">> \o Repeat("b", 10)}
        twins == {<<"A","1","1">>, <<"a","_","1","1">>, <<"A","-","1","1">>,
                  <<"a","-","-","1","1">>, <<"A","1">>}
    IN {<<n>> : n \in short \cup long} \cup {<<n, m>> : n \in twins, m \in twins}

InitGenerate ==
    /\ rt = RetryFrame(MAX_RETRIES)
    /\ bootstrapCache = None
    /\ calls = IdleCalls
    /\ env = IdleEnv
    /\ fetchCount = 0
    /\ populated = None
    /\ probe \in {[state |-> "called",
                   object |-> [names |-> [i \in DOMAIN raw |-> [name |-> raw[i], wordCount |-> 1]],
                               reasoning |-> "because"],
                   options |-> [allowHyphens |-> h, tlds |-> tlds],
                   ideas |-> <<>>,
                   candidates |-> <<>>] :
                     raw \in RawNames,
                     h \in {None, Some(TRUE), Some(FALSE)},
                     tlds \in {<< <<"c","o","m">> >>,
                               << <<".","I","O">>, <<"c","_","m">> >>,
                               << <<"-","x">> >>}}

\* search.ts:36-42
GenerateIdeas ==
    /\ probe.state = "called"
    /\ probe' = [probe EXCEPT !.state = "generated",
                              !.ideas = generateDomainIdeas(probe.object, probe.options).ideas]
    /\ UNCHANGED <<rt, bootstrapCache, calls, env, fetchCount, populated>>

\* search.ts:44
CombineTlds ==
    /\ probe.state = "generated"
    /\ probe' = [probe EXCEPT !.state = "combined",
                              !.candidates = combineWithTlds(probe.ideas, probe.options.tlds)]
    /\ UNCHANGED <<rt, bootstrapCache, calls, env, fetchCount, populated>>

SpecGenerate == InitGenerate /\ [][GenerateIdeas \/ CombineTlds]_vars

\* C36: the names generateDomainIdeas returns are pairwise different, have
\* 3 to 20 characters, each a lowercase letter, a digit or (unless hyphens
\* are disallowed) a hyphen, do not start or end with a hyphen and have no
\* two hyphens in a row; every candidate of combineWithTlds whose cleaned
\* TLD is one well-formed label is accepted by isValidDomain.
C36_IdeasAreCleanLabels ==
    /\ probe.state \in {"generated", "combined"} =>
          \A i \in DOMAIN probe.ideas :
              LET name == probe.ideas[i].name IN
              /\ \A j \in DOMAIN probe.ideas : probe.ideas[j].name = name => j = i
              /\ Len(name) >= 3
              /\ Len(name) <= 20
              /\ \A k \in DOMAIN name :
                     \/ name[k] \in Range(LowerLetters) \cup Digits
                     \/ name[k] = "-" /\ probe.options.allowHyphens # Some(FALSE)
              /\ name[1] # "-"
              /\ name[Len(name)] # "-"
              /\ \A k \in 1..(Len(name) - 1) : ~(name[k] = "-" /\ name[k + 1] = "-")
    /\ probe.state = "combined" =>
          /\ Len(probe.candidates) = Len(probe.ideas) * Len(probe.options.tlds)
          /\ \A k \in DOMAIN probe.candidates :
                LET c == probe.candidates[k] IN
                (/\ c.tld # <<>>
                 /\ Len(c.tld) <= 63
                 /\ \A n \in DOMAIN c.tld : c.tld[n] \in AlnumSet \cup {"-"}
                 /\ c.tld[1] # "-"
                 /\ c.tld[Len(c.tld)] # "-")
                   => isValidDomain(c.domain)

C36_Witness ==
    /\ probe.state = "combined"
    /\ Len(probe.object.names) = 2
    /\ probe.object.names[1].name = <<"A","-","1","1">>
    /\ probe.object.names[2].name = <<"a","-","-","1","1">>
    /\ probe.options.allowHyphens = None
    /\ probe.options.tlds = << <<".","I","O">>, <<"c","_","m">> >>
    /\ Len(probe.ideas) = 1
    /\ probe.ideas[1].name = <<"a","-","1","1">>
    /\ Len(probe.candidates) = 2
    /\ probe.candidates[1].domain = <<"a","-","1","1",".","i","o">>
    /\ isValidDomain(probe.candidates[1].domain)
    /\ ~isValidDomain(probe.candidates[2].domain)

(***************************************************************************)
(* searchDomains (search.ts:31-118).  Prices are whole numbers here; the   *)
(* code compares floating point numbers the same way.  Optional fields     *)
(* are None when undefined.                                                *)
(***************************************************************************)
PricingLookup_rethrow(namecheapConfig, answer) ==
    IF ~namecheapConfig THEN [threw |-> FALSE, map |-> <<>>]
    ELSE IF answer.kind = "throw" THEN [threw |-> TRUE, map |-> <<>>]
    ELSE [threw |-> FALSE,
          map |-> [t \in {answer.list[i].tld : i \in DOMAIN answer.list} |->
                     answer.list[Last({i \in DOMAIN answer.list : answer.list[i].tld = t})]]]

\* lines 49-59: pricingMap after the optional getTldPricing call; the catch
\* block lets nothing escape
PricingLookup(namecheapConfig, answer) ==
    IF ~namecheapConfig \/ answer.kind = "throw" THEN [threw |-> FALSE, map |-> <<>>]
    ELSE [threw |-> FALSE,
          map |-> [t \in {answer.list[i].tld : i \in DOMAIN answer.list} |->
                     answer.list[Last({i \in DOMAIN answer.list : answer.list[i].tld = t})]]]

WithinMaxPrice_knownOnly(d, maxPrice) ==
    LET price == IF d.isPremium THEN d.premiumPrice ELSE d.registerPrice IN
    price # None /\ The(price) <= maxPrice

\* the filter callback of lines 90-94
WithinMaxPrice(d, maxPrice) ==
    LET price == IF d.isPremium THEN d.premiumPrice ELSE d.registerPrice IN
    price = None \/ The(price) <= maxPrice

\* a.localeCompare(b) for strings of lowercase letters, digits, hyphens and
\* dots, which collate in the order hyphen, dot, digits, letters
localeCompare(a, b) ==
    LET order == <<"-", ".", "0", "1", "2", "3", "4", "5", "6", "7", "8", "9">> \o LowerLetters
        rank(ch) == CHOOSE k \in DOMAIN order : order[k] = ch
        diff == {i \in DOMAIN a \cap DOMAIN b : a[i] # b[i]}
    IN IF diff # {} THEN (IF rank(a[Min(diff)]) < rank(b[Min(diff)]) THEN -1 ELSE 1)
       ELSE IF Len(a) < Len(b) THEN -1
       ELSE IF Len(a) > Len(b) THEN 1
       ELSE 0

\* lines 44-117, given what generateDomainIdeas, checkDomains and
\* getTldPricing answered.  Array.prototype.sort is stable: an element moves
\* behind those the comparator puts before it and behind the earlier ones
\* it ties with.
searchDomains(generated, checkResults, namecheapConfig, pricingAnswer, options) ==
    LET candidates == combineWithTlds(generated.ideas, options.tlds)
        looked == PricingLookup(namecheapConfig, pricingAnswer)
        pricingMap == looked.map
        row(candidate) ==
            LET hits == {i \in DOMAIN checkResults :
                            checkResults[i].domain = candidate.domain}
            IN [domain |-> candidate.domain,
                baseName |-> candidate.baseName,
                tld |-> candidate.tld,
                wordCount |-> candidate.wordCount,
                available |-> IF hits = {} THEN FALSE ELSE checkResults[Last(hits)].available,
                isPremium |-> IF hits = {} THEN FALSE ELSE checkResults[Last(hits)].isPremium,
                premiumPrice |-> None,
                registerPrice |-> IF candidate.tld \in DOMAIN pricingMap
                                  THEN Some(pricingMap[candidate.tld].registerPrice)
                                  ELSE None,
                error |-> IF hits = {} THEN NoError ELSE checkResults[Last(hits)].error]
        onlyAvailable(d) == d.available
        notPremium(d) == ~d.isPremium
        affordable(d) == WithinMaxPrice(d, The(options.maxPrice))
        shortEnough(d) == Len(d.baseName) <= The(options.maxLength)
        mapped == [k \in DOMAIN candidates |-> row(candidates[k])]
        f1 == IF options.availableOnly THEN SelectSeq(mapped, onlyAvailable) ELSE mapped
        f2 == IF options.excludePremium THEN SelectSeq(f1, notPremium) ELSE f1
        f3 == IF options.maxPrice # None THEN SelectSeq(f2, affordable) ELSE f2
        f4 == IF options.maxLength # None THEN SelectSeq(f3, shortEnough) ELSE f3
        price(d) == IF d.isPremium THEN d.premiumPrice ELSE d.registerPrice
        before(a, b) ==
            IF options.sortBy = "price"
            THEN price(a) # None /\ (price(b) = None \/ The(price(a)) < The(price(b)))
            ELSE IF options.sortBy = "name" THEN localeCompare(a.domain, b.domain) < 0
            ELSE IF options.sortBy = "length" THEN Len(a.baseName) < Len(b.baseName)
            ELSE FALSE
        sort(ds) ==
            LET place(i) == 1 + Cardinality({j \in DOMAIN ds :
                                               \/ before(ds[j], ds[i])
                                               \/ ~before(ds[i], ds[j]) /\ j < i})
            IN [r \in DOMAIN ds |-> ds[CHOOSE i \in DOMAIN ds : place(i) = r]]
        sorted == The({sort(ds) : ds \in {f4}})
    IN IF looked.threw
       THEN [status |-> "raised", domains |-> <<>>, pricing |-> <<>>]
       ELSE [status |-> "returned", domains |-> sorted, pricing |-> pricingMap]

(***************************************************************************)
(* SpecSearch: one searchDomains call for the TLDs "com", ".IO" and "dev". *)
(* The language model named "Ab-Cd" and "abc"; every com and dev candidate *)
(* is found available or taken, every io candidate available or not       *)
(* looked up (whois failed); pricing is not configured, fails, or lists    *)
(* io and com, or all three TLDs; every combination of the filter and      *)
(* sort options.                                                           *)
(***************************************************************************)
InitSearch ==
    /\ rt = RetryFrame(MAX_RETRIES)
    /\ bootstrapCache = None
    /\ calls = IdleCalls
    /\ env = IdleEnv
    /\ fetchCount = 0
    /\ populated = None
    /\ \E generated \in {generateDomainIdeas(
                             [names |-> << [name |-> <<"A","b","-","C","d">>, wordCount |-> 2],
                                           [name |-> <<"a","b","c">>, wordCount |-> 1] >>,
                              reasoning |-> "because"],
                             [allowHyphens |-> None])},
          tlds \in {<< <<"c","o","m">>, <<".","I","O">>, <<"d","e","v">> >>} :
       \E names \in {combineWithTlds(generated.ideas, tlds)} :
       \E availableOnly \in BOOLEAN, excludePremium \in BOOLEAN,
          maxPrice \in {None, Some(0), Some(2)}, maxLength \in {None, Some(3)},
          sortBy \in {"none", "price", "name", "length"},
          found \in [DOMAIN names -> BOOLEAN],
          pricing \in
             LET tldPricing(tld, p) == [tld |-> tld, registerPrice |-> p, renewPrice |-> p,
                                        currency |-> "USD"]
             IN {[config |-> FALSE, answer |-> [kind |-> "throw", list |-> <<>>]],
                 [config |-> TRUE, answer |-> [kind |-> "throw", list |-> <<>>]],
                 [config |-> TRUE, answer |-> [kind |-> "list", list |->
                     << tldPricing(<<"i","o">>, 2), tldPricing(<<"c","o","m">>, 3) >>]],
                 [config |-> TRUE, answer |-> [kind |-> "list", list |->
                     << tldPricing(<<"c","o","m">>, 1), tldPricing(<<"i","o">>, 2),
                        tldPricing(<<"d","e","v">>, 3) >>]]} :
          probe = [state |-> "called",
                   options |-> [allowHyphens |-> None, tlds |-> tlds,
                                availableOnly |-> availableOnly,
                                excludePremium |-> excludePremium,
                                maxPrice |-> maxPrice, maxLength |-> maxLength,
                                sortBy |-> sortBy],
                   generated |-> generated,
                   checkResults |-> [k \in DOMAIN names |->
                       Result(names[k].domain, found[k],
                              IF ~found[k] /\ names[k].tld = <<"i","o">>
                              THEN "Command failed: whois" ELSE NoError,
                              FALSE)],
                   pricing |-> pricing,
                   result |-> [status |-> "pending", domains |-> <<>>, pricing |-> <<>>]]

SearchReturns ==
    /\ probe.state = "called"
    /\ probe' = [probe EXCEPT !.state = "settled",
                              !.result = searchDomains(probe.generated, probe.checkResults,
                                                       probe.pricing.config,
                                                       probe.pricing.answer, probe.options)]
    /\ UNCHANGED <<rt, bootstrapCache, calls, env, fetchCount, populated>>

SpecSearch == InitSearch /\ [][SearchReturns]_vars

\* the candidate at position k passes the filters of lines 80-86 and 97-100
PassesOtherFilters(k) ==
    /\ probe.options.availableOnly => probe.checkResults[k].available
    /\ probe.options.excludePremium => ~probe.checkResults[k].isPremium
    /\ probe.options.maxLength # None =>
          Len(combineWithTlds(probe.generated.ideas, probe.options.tlds)[k].baseName)
             <= The(probe.options.maxLength)

\* C34: with maxPrice set, a candidate whose applicable price is unknown is
\* returned whenever the other filters let it through, and every returned
\* domain with a known applicable price costs at most maxPrice.
C34_MaxPriceKeepsUnknown ==
    (probe.state = "settled" /\ probe.options.maxPrice # None) =>
        LET candidates == combineWithTlds(probe.generated.ideas, probe.options.tlds)
            listed == IF probe.pricing.config /\ probe.pricing.answer.kind = "list"
                      THEN {probe.pricing.answer.list[i].tld :
                              i \in DOMAIN probe.pricing.answer.list}
                      ELSE {}
        IN /\ probe.result.status = "returned"
           /\ \A k \in DOMAIN candidates :
                 (candidates[k].tld \notin listed /\ PassesOtherFilters(k))
                    => \E n \in DOMAIN probe.result.domains :
                          /\ probe.result.domains[n].domain = candidates[k].domain
                          /\ probe.result.domains[n].registerPrice = None
           /\ \A n \in DOMAIN probe.result.domains :
                 LET d == probe.result.domains[n]
                     price == IF d.isPremium THEN d.premiumPrice ELSE d.registerPrice
                 IN price # None => The(price) <= The(probe.options.maxPrice)

C34_Witness ==
    /\ probe.state = "settled"
    /\ probe.options.maxPrice = Some(2)
    /\ ~probe.options.availableOnly
    /\ probe.options.maxLength = None
    /\ probe.options.sortBy = "none"
    /\ probe.pricing.config
    /\ probe.pricing.answer.kind = "list"
    /\ Len(probe.pricing.answer.list) = 2
    /\ [n \in DOMAIN probe.result.domains |->
           <<probe.result.domains[n].domain, probe.result.domains[n].registerPrice>>]
         = << << <<"a","b","-","c","d",".","i","o">>, Some(2) >>,
              << <<"a","b","-","c","d",".","d","e","v">>, None >>,
              << <<"a","b","c",".","i","o">>, Some(2) >>,
              << <<"a","b","c",".","d","e","v">>, None >> >>

\* C35: when getTldPricing raises, searchDomains still returns: the pricing
\* map is empty, and the result holds, with the availability and the error
\* checkDomains reported and without registerPrice, every candidate that the
\* availableOnly, excludePremium and maxLength options let through (all
\* candidates when none of these options excludes one); the maxPrice filter
\* removes nothing.
C35_PricingFailureContained ==
    (probe.state = "settled" /\ probe.pricing.config
       /\ probe.pricing.answer.kind = "throw") =>
        LET candidates == combineWithTlds(probe.generated.ideas, probe.options.tlds)
            passing == {k \in DOMAIN candidates : PassesOtherFilters(k)}
        IN /\ probe.result.status = "returned"
           /\ probe.result.pricing = <<>>
           /\ Len(probe.result.domains) = Cardinality(passing)
           /\ (~probe.options.availableOnly /\ probe.options.maxLength = None)
                 => Len(probe.result.domains) = Len(candidates)
           /\ \A k \in passing :
                 \E n \in DOMAIN probe.result.domains :
                    LET d == probe.result.domains[n] IN
                    /\ d.domain = candidates[k].domain
                    /\ d.available = probe.checkResults[k].available
                    /\ d.error = probe.checkResults[k].error
                    /\ d.registerPrice = None

C35_Witness ==
    /\ probe.state = "settled"
    /\ probe.pricing.config
    /\ probe.pricing.answer.kind = "throw"
    /\ probe.options.maxPrice = Some(0)
    /\ ~probe.options.availableOnly
    /\ probe.options.maxLength = None
    /\ probe.result.status = "returned"
    /\ Len(probe.result.domains) = 6
    /\ \E n \in DOMAIN probe.result.domains :
          /\ probe.result.domains[n].available
          /\ probe.result.domains[n].registerPrice = None
    /\ \E n \in DOMAIN probe.result.domains :
          probe.result.domains[n].error = "Command failed: whois"

====
